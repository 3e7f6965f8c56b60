-------------------------- MODULE AgentTunnelProofs --------------------------
(***************************************************************************)
(* The tunnel for any number of connections, requests and crashes.         *)
(* SessionIsNewest needs that connections are dialled one after the other  *)
(* and that a socket of the API belongs to a connection that was dialled.  *)
(* That calls are remote calls needs to know where the frames in flight    *)
(* come from: a command in flight was sent on that very connection, an     *)
(* answer in flight has an outcome, and a call that is pending is still    *)
(* waited for.  On this invariant, IInv, three others are built: OInv for  *)
(* the order of execution, CrashInv for the crash count, and AInv for the  *)
(* agreement of record and agent while nothing is disturbed.  The last     *)
(* needs Sound besides: that the exit of a process the manager was told to *)
(* end, or has replaced, is never that of an ONLINE server.                *)
(***************************************************************************)
EXTENDS AgentTunnel, SequenceTheorems, FunctionTheorems, FiniteSetTheorems, TLAPS

LinksOK ==
  /\ link \in [Conns -> {"none", "up", "cut"}]
  /\ down \in [Conns -> Seq(Cmds)]
  /\ up \in [Conns -> Seq(Frames)]

AgentOK ==
  /\ dialing \in Conns \cup {Nil}
  /\ conn \in Conns \cup {Nil}
  /\ working \in Cmds \cup {Nil}
  /\ result \in [Cmds -> Results \cup {"none"}]

GatewayOK ==
  /\ ws \in [Conns -> {"none", "OPEN", "CLOSING", "CLOSED"}]
  /\ session \in Conns \cup {Nil}
  /\ node \in {"ONLINE", "OFFLINE"}
  /\ pending \in [Conns -> SUBSET Cmds]

CallsOK ==
  /\ kind \in [Cmds -> AllKinds]
  /\ via \in [Cmds -> Conns \cup {Nil}]
  /\ promise \in [Cmds -> Results \cup {"none", "waiting", "rejected"}]
  /\ ready \in Seq(Cmds)
  /\ status \in {"OFFLINE", "ONLINE", "ERROR"}

Types == LinksOK /\ AgentOK /\ GatewayOK /\ CallsOK

\* Connections are dialled one after the other, and those of the API's
\* sockets, the one that is being dialled included, are among them.
DialledInOrder ==
  /\ \A j, k \in Conns : j < k /\ link[k] # "none" => link[j] # "none"
  /\ \A k \in Conns : ws[k] # "none" => link[k] # "none"
  /\ dialing # Nil =>
       /\ link[dialing] # "none"
       /\ \A k \in Conns : link[k] # "none" => k <= dialing

\* What the route has got and what the agent has done agree.
CallInv ==
  \A c \in Cmds :
    /\ promise[c] = "none" => via[c] = Nil
    /\ via[c] = Nil => result[c] = "none" /\ promise[c] # "waiting"
    /\ via[c] # Nil /\ promise[c] \in Results => result[c] = promise[c]

\* What a session waits for was sent on it and is waited for by its route.
PendingInv ==
  \A k \in Conns : \A c \in pending[k] : promise[c] = "waiting" /\ via[c] = k

\* A route that waits is one its session waits for.
WaitedInv ==
  \A c \in Cmds, k \in Conns : promise[c] = "waiting" /\ via[c] = k => c \in pending[k]

\* Every command among some was sent on connection k.
SentOn(cmds, sentVia, k) == \A m \in 1..Len(cmds) : sentVia[cmds[m]] = k

\* Every answer among some frames is one to an executed command.
Answered(frames, outcome) ==
  \A m \in 1..Len(frames) :
    frames[m].type = "CMD_RESP" => outcome[frames[m].id] # "none"

FramesInv ==
  /\ \A k \in Conns : SentOn(down[k], via, k)
  /\ \A k \in Conns : Answered(up[k], result)
  /\ working # Nil => via[working] # Nil

IInv ==
  /\ Types
  /\ DialledInOrder
  /\ SessionIsNewest
  /\ CallInv
  /\ PendingInv
  /\ WaitedInv
  /\ FramesInv
  /\ OnlineHasCause

-----------------------------------------------------------------------------
(* Sequences *)

\* Appending one element.
LEMMA Appended ==
  ASSUME NEW S, NEW s \in Seq(S), NEW e \in S
  PROVE  /\ Append(s, e) \in Seq(S)
         /\ Len(Append(s, e)) = Len(s) + 1
         /\ \A i \in 1..Len(s) : Append(s, e)[i] = s[i]
         /\ Append(s, e)[Len(s) + 1] = e
OBVIOUS

\* What is left of a sequence when its first element is taken out.
LEMMA WithoutFirst ==
  ASSUME NEW S, NEW s \in Seq(S), Len(s) # 0
  PROVE  LET t == SubSeq(s, 1, 0) \o SubSeq(s, 2, Len(s))
         IN t \in Seq(S) /\ Len(t) = Len(s) - 1
              /\ \A i \in 1..Len(t) : t[i] = s[i + 1]
<1> DEFINE a == SubSeq(s, 1, 0)
           b == SubSeq(s, 2, Len(s))
<1>1. Len(s) \in Nat /\ \A i \in 1..Len(s) : s[i] \in S
  BY LenProperties, ElementOfSeq
<1>2. a = <<>>
  BY SubSeqEmpty
<1>3. /\ b \in Seq(S) /\ Len(b) = Len(s) - 1
      /\ \A i \in 1..(Len(s) - 1) : b[i] = s[i + 1]
  <2>1. \A i \in 2..Len(s) : s[i] \in S
    BY <1>1
  <2>2. /\ b \in Seq(S)
        /\ Len(b) = IF 2 <= Len(s) THEN Len(s) - 2 + 1 ELSE 0
        /\ \A i \in 1..(Len(s) - 2 + 1) : b[i] = s[2 + i - 1]
    BY <1>1, <2>1, SubSeqProperties
  <2> QED
    BY <1>1, <2>2
<1> HIDE DEF b
<1>4. a \o b = b
  BY <1>2, <1>3, ConcatEmptySeq
<1> HIDE DEF a
<1>5. /\ a \o b \in Seq(S) /\ Len(a \o b) = Len(s) - 1
      /\ \A i \in 1..Len(a \o b) : (a \o b)[i] = s[i + 1]
  BY <1>1, <1>3, <1>4
<1> QED
  BY <1>5 DEF a, b

-----------------------------------------------------------------------------
(* Initially *)

\* The initial states satisfy the invariant.
LEMMA InitIInv == Init => IInv
<1> SUFFICES ASSUME Init PROVE IInv
  OBVIOUS
<1> USE TunnelAssumption DEF Init, Nil, Results, AllKinds
<1>1. LinksOK
  BY DEF LinksOK
<1>2. AgentOK
  BY DEF AgentOK
<1>3. GatewayOK
  BY DEF GatewayOK
<1>4. CallsOK
  BY DEF CallsOK
<1>5. DialledInOrder
  BY DEF DialledInOrder
<1>6. SessionIsNewest /\ CallInv /\ PendingInv /\ WaitedInv
  BY DEF SessionIsNewest, CallInv, PendingInv, WaitedInv
<1>7. FramesInv
  BY DEF FramesInv, SentOn, Answered
<1>8. OnlineHasCause
  BY DEF OnlineHasCause
<1> QED
  BY <1>1, <1>2, <1>3, <1>4, <1>5, <1>6, <1>7, <1>8 DEF IInv, Types

-----------------------------------------------------------------------------
(* What the steps do *)

\* A frame is taken from the front of what is in flight to the agent.
LEMMA ReceiveTakes ==
  ASSUME LinksOK, NEW k \in Conns, Receive(k)
  PROVE  \E t \in Seq(Cmds) :
           /\ Len(down[k]) \in Nat \ {0} /\ Len(t) = Len(down[k]) - 1
           /\ \A m \in 1..Len(t) : t[m] = down[k][m + 1]
           /\ down' = [down EXCEPT ![k] = t]
           /\ working' = down[k][1] /\ working' \in Cmds
<1> DEFINE s == down[k]
<1>1. s \in Seq(Cmds)
  BY DEF LinksOK
<1>2. /\ 1 \in 1..Len(s)
      /\ working' = s[1]
      /\ down' = [down EXCEPT ![k] = SubSeq(s, 1, 1 - 1) \o SubSeq(s, 1 + 1, Len(s))]
  BY DEF Receive, NextFrame
<1> HIDE DEF s
<1>3. Len(s) \in Nat \ {0} /\ s[1] \in Cmds
  BY <1>1, <1>2, LenProperties, ElementOfSeq
<1> DEFINE t == SubSeq(s, 1, 0) \o SubSeq(s, 2, Len(s))
<1>4. t \in Seq(Cmds) /\ Len(t) = Len(s) - 1 /\ \A m \in 1..Len(t) : t[m] = s[m + 1]
  BY <1>1, <1>3, WithoutFirst
<1>5. down' = [down EXCEPT ![k] = t]
  <2>1. 1 - 1 = 0 /\ 1 + 1 = 2
    OBVIOUS
  <2> QED
    BY <1>2, <2>1
<1> HIDE DEF t
<1> QED
  BY <1>2, <1>3, <1>4, <1>5 DEF s

\* A frame that is sent goes to the end of what is in flight, or nowhere.
LEMMA SendAppends ==
  ASSUME LinksOK, conn \in Conns \cup {Nil}, NEW f \in Frames, SendFrame(f)
  PROVE  \/ up' = up
         \/ \E k \in Conns : up' = [up EXCEPT ![k] = Append(up[k], f)]
BY DEF SendFrame

\* The frame a message handler gets and what is left of those in flight.
LEMMA ProcessTakes ==
  ASSUME LinksOK, NEW k \in Conns, ProcessFrame(k)
  PROVE  /\ Head(up[k]) \in Frames /\ Head(up[k]) = up[k][1]
         /\ Len(up[k]) \in Nat \ {0}
         /\ \E t \in Seq(Frames) :
              /\ Len(t) = Len(up[k]) - 1
              /\ \A m \in 1..Len(t) : t[m] = up[k][m + 1]
              /\ up' = [up EXCEPT ![k] = t]
<1> DEFINE s == up[k]
<1>1. s \in Seq(Frames)
  BY DEF LinksOK
<1>2. s # <<>> /\ up' = [up EXCEPT ![k] = Tail(s)]
  BY DEF ProcessFrame
<1> HIDE DEF s
<1>3. Len(s) \in Nat \ {0}
  BY <1>1, <1>2, EmptySeq
<1>4. Head(s) = s[1]
  BY <1>1, <1>3
<1>5. /\ Head(s) \in Frames /\ Tail(s) \in Seq(Frames) /\ Len(Tail(s)) = Len(s) - 1
      /\ \A m \in 1..Len(Tail(s)) : Tail(s)[m] = s[m + 1]
  BY <1>1, <1>2, HeadTailProperties
<1> QED
  BY <1>2, <1>3, <1>4, <1>5 DEF s

\* Handling a frame settles no call, or one the session waits for with its
\* own outcome.
LEMMA ProcessSettles ==
  ASSUME Types, NEW k \in Conns, ProcessFrame(k)
  PROVE  \/ UNCHANGED <<promise, pending, ready>>
         \/ \E c \in Cmds :
              /\ Head(up[k]) = Resp(c)
              /\ c \in pending[k]
              /\ promise' = [promise EXCEPT ![c] = result[c]]
              /\ pending' = [pending EXCEPT ![k] = @ \ {c}]
              /\ ready' = Append(ready, c)
              /\ UNCHANGED status
<1>1. Head(up[k]) \in Frames
  BY ProcessTakes DEF Types
<1>2. CASE Head(up[k]).type = "CRASH"
  BY <1>2 DEF ProcessFrame, OnCrash
<1>3. CASE Head(up[k]).type # "CRASH"
  <2>1. PICK c \in Cmds : Head(up[k]) = Resp(c)
    BY <1>1, <1>3 DEF Frames, Crash
  <2>2. OnResponse(k, c)
    BY <1>3, <2>1 DEF ProcessFrame, Resp
  <2>3. CASE c \in pending[k]
    BY <2>1, <2>2, <2>3 DEF OnResponse, Awaited
  <2>4. CASE c \notin pending[k]
    BY <2>2, <2>4 DEF OnResponse, Awaited
  <2> QED
    BY <2>3, <2>4
<1> QED
  BY <1>2, <1>3

-----------------------------------------------------------------------------
(* Types *)

\* Every step keeps the types of the links.
LEMMA LinksStep == Types /\ [Next]_vars => LinksOK'
<1> SUFFICES ASSUME Types, [Next]_vars PROVE LinksOK'
  OBVIOUS
<1>0. LinksOK /\ AgentOK /\ GatewayOK
  BY DEF Types
<1>1. CASE UNCHANGED links
  BY <1>0, <1>1 DEF LinksOK, links
<1>2. ASSUME NEW k \in Conns, Dial(k) \/ DialFails(k) \/ CutLink(k) PROVE LinksOK'
  <2>1. PICK v \in {"up", "cut"} : link' = [link EXCEPT ![k] = v]
    BY <1>2 DEF Dial, DialFails, CutLink
  <2>2. UNCHANGED <<down, up>>
    BY <1>2 DEF Dial, DialFails, CutLink
  <2> QED
    BY <1>0, <2>1, <2>2 DEF LinksOK
<1>3. ASSUME NEW k \in Conns, ReadFails(k) \/ OnClose(k) PROVE LinksOK'
  <2>1. <<>> \in Seq(Cmds) /\ <<>> \in Seq(Frames)
    OBVIOUS
  <2>2. CASE down' = [down EXCEPT ![k] = <<>>] /\ UNCHANGED <<link, up>>
    BY <1>0, <2>1, <2>2 DEF LinksOK
  <2>3. CASE up' = [up EXCEPT ![k] = <<>>] /\ UNCHANGED <<link, down>>
    BY <1>0, <2>1, <2>3 DEF LinksOK
  <2> QED
    BY <1>3, <2>2, <2>3 DEF ReadFails, OnClose
<1>4. ASSUME NEW k \in Conns, Receive(k) PROVE LinksOK'
  <2>1. PICK t \in Seq(Cmds) : down' = [down EXCEPT ![k] = t]
    BY <1>0, <1>4, ReceiveTakes
  <2> QED
    BY <1>0, <1>4, <2>1 DEF LinksOK, Receive
<1>5. ASSUME NEW f \in Frames, SendFrame(f), UNCHANGED <<link, down>> PROVE LinksOK'
  <2>1. CASE up' = up
    BY <1>0, <1>5, <2>1 DEF LinksOK
  <2>2. ASSUME NEW k \in Conns, up' = [up EXCEPT ![k] = Append(up[k], f)]
        PROVE  LinksOK'
    <3>1. Append(up[k], f) \in Seq(Frames)
      BY <1>0, Appended DEF LinksOK
    <3> QED
      BY <1>0, <1>5, <2>2, <3>1 DEF LinksOK
  <2> QED
    BY <1>0, <1>5, <2>1, <2>2, SendAppends DEF AgentOK
<1>6. CASE Respond
  BY <1>0, <1>5, <1>6 DEF Respond, AgentOK, Frames
<1>7. CASE OnProcessExit
  BY <1>5, <1>7 DEF OnProcessExit, Frames
<1>8. ASSUME NEW c \in Cmds, NEW what \in Kinds, SendCommand(c, what) PROVE LinksOK'
  <2>1. session \in Conns
    BY <1>0, <1>8 DEF SendCommand, IsNodeConnected, GatewayOK
  <2>2. Append(down[session], c) \in Seq(Cmds)
    BY <1>0, <2>1, Appended DEF LinksOK
  <2> QED
    BY <1>0, <1>8, <2>2 DEF LinksOK, SendCommand
<1>9. ASSUME NEW k \in Conns, ProcessFrame(k) PROVE LinksOK'
  <2>1. PICK t \in Seq(Frames) : up' = [up EXCEPT ![k] = t]
    BY <1>0, <1>9, ProcessTakes
  <2> QED
    BY <1>0, <1>9, <2>1 DEF LinksOK, ProcessFrame
<1> QED
  BY <1>1, <1>2, <1>3, <1>4, <1>6, <1>7, <1>8, <1>9
     DEF Next, Agent, Gateway, Routes, vars, links, HandleConnection, DialReturns,
         SocketCloses, HandleCommand, ProcessExits, RunLocally, CommandTimeout,
         RouteGoesOn, DeleteServer

-----------------------------------------------------------------------------
(* The process manager *)

\* A server that is ONLINE has the process of its latest Start, not marked.
Sound(s, p) ==
  /\ s \in {"OFFLINE", "ONLINE", "ERROR"}
  /\ p \in Processes
  /\ p.mark <= p.generation
  /\ s = "ONLINE" => p.cmd = p.generation /\ p.mark < p.generation

\* What a Start, a Stop and a Restart can come to.
LEMMA StartedCases ==
  ASSUME NEW s, NEW p, NEW o \in Started(s, p)
  PROVE  \/ s = "ONLINE" /\ o = <<s, p, "ok">>
         \/ o = <<"ONLINE", Spawned(p), "ok">>
         \/ o = <<"ERROR", NotSpawned(p), "failed">>
BY DEF Started

LEMMA StoppedCases ==
  ASSUME NEW s, NEW p, NEW o \in Stopped(s, p)
  PROVE  \/ s = "OFFLINE" /\ o = <<s, p, "ok">>
         \/ o = <<"OFFLINE", Marked(p), "ok">>
         \/ o = <<"ERROR", Marked(p), "failed">>
BY DEF Stopped

LEMMA RestartedCases ==
  ASSUME NEW s, NEW p, NEW o \in Restarted(s, p)
  PROVE  \/ o \in Stopped(s, p) /\ o[3] = "failed"
         \/ \E h \in Stopped(s, p) :
              /\ h[3] = "ok"
              /\ o \in Started("OFFLINE", h[2]) \/ o \in Started("OFFLINE", Gone(h[2]))
<1>1. CASE o \in Stopped(s, p) \ Halted(s, p)
  <2>1. o[3] = "failed"
    BY <1>1, StoppedCases DEF Halted
  <2> QED
    BY <1>1, <2>1
<1>2. CASE \E h \in Halted(s, p) :
             o \in Started("OFFLINE", h[2]) \/ o \in Started("OFFLINE", Gone(h[2]))
  BY <1>2 DEF Halted
<1> QED
  BY <1>1, <1>2 DEF Restarted

\* Whatever it was asked, the manager answers, and tells success by the state.
LEMMA OutcomeAnswers ==
  ASSUME NEW what \in AllKinds, NEW o \in Outcomes(what)
  PROVE  /\ o[3] \in Results
         /\ o[3] = "ok" =>
              o[1] = CASE what \in {"START", "RESTART"} -> "ONLINE"
                       [] what = "STOP" -> "OFFLINE"
                       [] OTHER -> bds
<1>1. CASE what = "START"
  BY <1>1, StartedCases DEF Outcomes, Results
<1>2. CASE what = "STOP"
  BY <1>2, StoppedCases DEF Outcomes, Results
<1>3. CASE what = "RESTART"
  <2>1. o \in Restarted(bds, procs)
    BY <1>3 DEF Outcomes
  <2>2. CASE o[3] = "failed"
    BY <1>3, <2>2 DEF Results
  <2>3. CASE o[3] # "failed"
    <3>1. PICK q : o \in Started("OFFLINE", q)
      BY <2>1, <2>3, RestartedCases
    <3> QED
      BY <1>3, <2>3, <3>1, StartedCases DEF Results
  <2> QED
    BY <2>2, <2>3
<1>4. CASE what = "OTHER"
  <2>1. PICK r \in Results : o = <<bds, procs, r>>
    BY <1>4 DEF Outcomes
  <2> QED
    BY <1>4, <2>1
<1> QED
  BY <1>1, <1>2, <1>3, <1>4 DEF AllKinds

\* No call of the manager makes a state unsound.
LEMMA OutcomeSound ==
  ASSUME Sound(bds, procs), NEW what \in AllKinds, NEW o \in Outcomes(what)
  PROVE  Sound(o[1], o[2])
<1>1. ASSUME NEW s, NEW p, Sound(s, p), NEW q \in Started(s, p) PROVE Sound(q[1], q[2])
  <2>1. p \in Processes /\ p.generation \in Nat /\ p.mark <= p.generation
    BY <1>1 DEF Sound, Processes
  <2>2. /\ Spawned(p) \in Processes
        /\ Spawned(p).generation = p.generation + 1 /\ Spawned(p).cmd = p.generation + 1
        /\ Spawned(p).mark = p.mark
    <3>1. /\ p.generation + 1 \in Nat
          /\ p.alive \cup {p.generation + 1} \in SUBSET Nat
      BY <2>1 DEF Processes
    <3> QED
      BY <2>1, <3>1, Zenon DEF Spawned, Processes
  <2>3. /\ NotSpawned(p) \in Processes
        /\ NotSpawned(p).generation = p.generation + 1 /\ NotSpawned(p).mark = p.mark
    BY <2>1 DEF NotSpawned, Processes
  <2>4. p.mark \in Nat
    BY <2>1 DEF Processes
  <2>5. Sound("ONLINE", Spawned(p)) /\ Sound("ERROR", NotSpawned(p))
    BY <2>1, <2>2, <2>3, <2>4 DEF Sound
  <2> QED
    BY <1>1, <2>5, StartedCases
<1>2. ASSUME NEW s, NEW p, Sound(s, p), NEW q \in Stopped(s, p) PROVE Sound(q[1], q[2])
  <2>1. Sound("OFFLINE", Marked(p)) /\ Sound("ERROR", Marked(p))
    BY <1>2 DEF Sound, Marked, Processes
  <2> QED
    BY <1>2, <2>1, StoppedCases
<1>3. ASSUME NEW p, Sound("OFFLINE", p) PROVE Sound("OFFLINE", Gone(p))
  <2>1. p \in Processes /\ p.mark \in Nat /\ p.generation \in Nat
    BY <1>3 DEF Sound, Processes
  <2>2. /\ Gone(p) \in Processes /\ Gone(p).generation = p.generation
        /\ Gone(p).mark \in {p.mark, 0}
    BY <2>1 DEF Gone, Processes, Nil
  <2> QED
    BY <1>3, <2>1, <2>2 DEF Sound
<1>4. CASE what = "RESTART"
  <2>1. o \in Restarted(bds, procs)
    BY <1>4 DEF Outcomes
  <2>2. CASE o \in Stopped(bds, procs)
    BY <1>2, <2>2
  <2>3. CASE o \notin Stopped(bds, procs)
    <3>1. PICK h \in Stopped(bds, procs) :
            /\ h[3] = "ok"
            /\ o \in Started("OFFLINE", h[2]) \/ o \in Started("OFFLINE", Gone(h[2]))
      BY <2>1, <2>3, RestartedCases
    <3>2. h[1] = "OFFLINE" /\ Sound(h[1], h[2])
      BY <1>2, <3>1, StoppedCases
    <3>3. Sound("OFFLINE", h[2]) /\ Sound("OFFLINE", Gone(h[2]))
      BY <1>3, <3>2
    <3> QED
      BY <1>1, <3>1, <3>3
  <2> QED
    BY <2>2, <2>3
<1>5. CASE what = "OTHER"
  <2>1. PICK r \in Results : o = <<bds, procs, r>>
    BY <1>5 DEF Outcomes
  <2> QED
    BY <2>1
<1>6. CASE what = "START"
  BY <1>1, <1>6 DEF Outcomes
<1>7. CASE what = "STOP"
  BY <1>2, <1>7 DEF Outcomes
<1> QED
  BY <1>4, <1>5, <1>6, <1>7 DEF AllKinds

\* The exit of a process leaves an ONLINE server alone unless it was its own,
\* which then counts as a crash.
LEMMA ExitSound ==
  ASSUME Sound(bds, procs), NEW g, ProcessExits(g)
  PROVE  /\ Sound(bds', procs')
         /\ ~disturbed' => (bds' = "ONLINE" <=> bds = "ONLINE")
<1>1. /\ procs \in Processes /\ g \in Nat
      /\ procs' = [procs EXCEPT !.cmd = IF IsCurrent(g) THEN Nil ELSE @,
                                !.mark = IF WasIntentional(g) THEN 0 ELSE @,
                                !.alive = @ \ {g}]
  BY DEF ProcessExits, Sound, Processes
<1>2. /\ procs' \in Processes /\ procs'.generation = procs.generation
      /\ procs'.cmd = IF procs.cmd = g THEN 0 ELSE procs.cmd
      /\ procs'.mark = IF procs.mark = g THEN 0 ELSE procs.mark
  BY <1>1 DEF Processes, IsCurrent, WasIntentional, Nil
<1>3. CASE procs.cmd # g
  BY <1>2, <1>3 DEF ProcessExits, Sound, Processes, IsCurrent
<1>4. CASE procs.cmd = g /\ procs.mark = g
  BY <1>2, <1>4 DEF ProcessExits, Sound, Processes, IsCurrent, WasIntentional
<1>5. CASE procs.cmd = g /\ procs.mark # g
  BY <1>2, <1>5 DEF ProcessExits, Sound, Processes, IsCurrent, WasIntentional
<1> QED
  BY <1>3, <1>4, <1>5

-----------------------------------------------------------------------------
(* The agent, the gateway and the calls *)

\* Every step keeps the types of the agent.
LEMMA AgentStep == Types /\ [Next]_vars => AgentOK'
<1> SUFFICES ASSUME Types, [Next]_vars PROVE AgentOK'
  OBVIOUS
<1>0. LinksOK /\ AgentOK
  BY DEF Types
<1>1. CASE UNCHANGED <<dialing, conn, working, result>>
  BY <1>0, <1>1 DEF AgentOK
<1>2. ASSUME NEW k \in Conns, Dial(k) \/ DialReturns(k) \/ DialFails(k) \/ ReadFails(k)
      PROVE  AgentOK'
  BY <1>0, <1>2 DEF AgentOK, Dial, DialReturns, DialFails, ReadFails
<1>3. ASSUME NEW k \in Conns, Receive(k) PROVE AgentOK'
  <2>1. working' \in Cmds
    BY <1>0, <1>3, ReceiveTakes
  <2> QED
    BY <1>0, <1>3, <2>1 DEF AgentOK, Receive
<1>4. CASE HandleCommand
  <2>1. PICK o \in Outcomes(kind[working]) : result' = [result EXCEPT ![working] = o[3]]
    BY <1>4 DEF HandleCommand
  <2>2. kind[working] \in AllKinds
    BY <1>4 DEF HandleCommand, Types, AgentOK, CallsOK
  <2>3. o[3] \in Results
    BY <2>2, OutcomeAnswers
  <2> QED
    BY <1>0, <1>4, <2>1, <2>3 DEF AgentOK, HandleCommand
<1>5. CASE Respond
  BY <1>0, <1>5 DEF AgentOK, Respond
<1> QED
  BY <1>1, <1>2, <1>3, <1>4, <1>5
     DEF Next, Agent, Gateway, Routes, vars, agent, HandleConnection, SocketCloses,
         OnClose, CutLink, ProcessFrame, ProcessExits, OnProcessExit, SendCommand,
         RunLocally, CommandTimeout, RouteGoesOn, DeleteServer

\* Every step keeps the types of the gateway.
LEMMA GatewayStep == Types /\ [Next]_vars => GatewayOK'
<1> SUFFICES ASSUME Types, [Next]_vars PROVE GatewayOK'
  OBVIOUS
<1>0. GatewayOK
  BY DEF Types
<1>1. CASE UNCHANGED gateway
  BY <1>0, <1>1 DEF GatewayOK, gateway
<1>2. ASSUME NEW k \in Conns, HandleConnection(k) \/ SocketCloses(k) \/ OnClose(k)
      PROVE  GatewayOK'
  <2>1. PICK v \in {"OPEN", "CLOSING", "CLOSED"} : ws' = [ws EXCEPT ![k] = v]
    BY <1>2 DEF HandleConnection, SocketCloses, OnClose
  <2>2. session' \in Conns \cup {Nil} /\ node' \in {"ONLINE", "OFFLINE"}
    BY <1>0, <1>2 DEF GatewayOK, HandleConnection, SocketCloses, OnClose, Forget
  <2>3. UNCHANGED pending
    BY <1>2 DEF HandleConnection, SocketCloses, OnClose, Forget
  <2> QED
    BY <1>0, <2>1, <2>2, <2>3 DEF GatewayOK
<1>3. ASSUME NEW k \in Conns, NEW p \in SUBSET Cmds, pending' = [pending EXCEPT ![k] = p],
             UNCHANGED <<ws, session, node>>
      PROVE  GatewayOK'
  BY <1>0, <1>3 DEF GatewayOK
<1>4. ASSUME NEW c \in Cmds, NEW what \in Kinds, SendCommand(c, what) PROVE GatewayOK'
  <2>1. session \in Conns
    BY <1>0, <1>4 DEF SendCommand, IsNodeConnected, GatewayOK
  <2>2. pending[session] \cup {c} \in SUBSET Cmds
    BY <1>0, <2>1 DEF GatewayOK
  <2> QED
    BY <1>3, <1>4, <2>1, <2>2 DEF SendCommand
<1>5. ASSUME NEW c \in Cmds, CommandTimeout(c) PROVE GatewayOK'
  BY <1>0, <1>5 DEF GatewayOK, CommandTimeout
<1>6. ASSUME NEW k \in Conns, ProcessFrame(k) PROVE GatewayOK'
  <2>1. UNCHANGED <<ws, session, node>>
    BY <1>6 DEF ProcessFrame
  <2>2. CASE UNCHANGED pending
    BY <1>0, <2>1, <2>2 DEF GatewayOK
  <2>3. ASSUME NEW c \in Cmds, pending' = [pending EXCEPT ![k] = @ \ {c}]
        PROVE  GatewayOK'
    BY <1>0, <2>1, <2>3 DEF GatewayOK
  <2> QED
    BY <1>6, <2>2, <2>3, ProcessSettles
<1> QED
  BY <1>1, <1>2, <1>4, <1>5, <1>6
     DEF Next, Agent, Gateway, Routes, vars, gateway, Dial, DialReturns, DialFails,
         ReadFails, Receive, HandleCommand, Respond, ProcessExits, OnProcessExit,
         CutLink, RunLocally, RouteGoesOn, DeleteServer

\* Every step keeps the types of the calls.
LEMMA CallsStep == Types /\ [Next]_vars => CallsOK'
<1> SUFFICES ASSUME Types, [Next]_vars PROVE CallsOK'
  OBVIOUS
<1>0. CallsOK /\ AgentOK /\ GatewayOK
  BY DEF Types
<1> USE TunnelAssumption
<1>1. CASE UNCHANGED <<calls, status>>
  BY <1>0, <1>1 DEF CallsOK, calls
<1>2. ASSUME NEW c \in Cmds, NEW what \in Kinds, SendCommand(c, what) PROVE CallsOK'
  <2>1. session \in Conns
    BY <1>0, <1>2 DEF SendCommand, IsNodeConnected, GatewayOK
  <2>2. /\ kind' = [kind EXCEPT ![c] = what]
        /\ via' = [via EXCEPT ![c] = session]
        /\ promise' = [promise EXCEPT ![c] = "waiting"]
        /\ UNCHANGED <<ready, status>>
    BY <1>2 DEF SendCommand, record
  <2> QED
    BY <1>0, <2>1, <2>2 DEF CallsOK
<1>3. ASSUME NEW c \in Cmds, NEW what \in Kinds, RunLocally(c, what) PROVE CallsOK'
  <2>1. PICK r \in Results : promise' = [promise EXCEPT ![c] = r]
    BY <1>3 DEF RunLocally
  <2>2. ready' = Append(ready, c) /\ ready' \in Seq(Cmds)
    BY <1>0, <1>3 DEF CallsOK, RunLocally
  <2>3. kind' = [kind EXCEPT ![c] = what] /\ UNCHANGED <<via, status>>
    BY <1>3 DEF RunLocally, record
  <2> QED
    BY <1>0, <2>1, <2>2, <2>3 DEF CallsOK
<1>4. ASSUME NEW c \in Cmds, CommandTimeout(c) PROVE CallsOK'
  BY <1>0, <1>4 DEF CallsOK, CommandTimeout, record
<1>5. ASSUME NEW k \in Conns, ProcessFrame(k) PROVE CallsOK'
  <2>1. UNCHANGED <<kind, via>> /\ status' \in {"OFFLINE", "ONLINE", "ERROR"}
    BY <1>0, <1>5 DEF CallsOK, ProcessFrame, OnCrash, OnResponse
  <2>2. CASE UNCHANGED <<promise, ready>>
    BY <1>0, <2>1, <2>2 DEF CallsOK
  <2>3. ASSUME NEW c \in Cmds, promise' = [promise EXCEPT ![c] = result[c]],
               ready' = Append(ready, c)
        PROVE  CallsOK'
    <3>1. ready' \in Seq(Cmds)
      BY <1>0, <2>3 DEF CallsOK
    <3>2. result[c] \in Results \cup {"none", "waiting", "rejected"}
      BY <1>0 DEF AgentOK
    <3> QED
      BY <1>0, <2>1, <2>3, <3>1, <3>2 DEF CallsOK
  <2> QED
    BY <1>5, <2>2, <2>3, ProcessSettles
<1>6. CASE RouteGoesOn
  <2>1. ready' \in Seq(Cmds)
    BY <1>0, <1>6, HeadTailProperties DEF CallsOK, RouteGoesOn
  <2>2. status' \in {"OFFLINE", "ONLINE", "ERROR"} /\ UNCHANGED <<kind, via, promise>>
    BY <1>0, <1>6 DEF CallsOK, RouteGoesOn, SetStatus
  <2> QED
    BY <1>0, <2>1, <2>2 DEF CallsOK
<1>7. CASE DeleteServer
  BY <1>0, <1>7 DEF CallsOK, DeleteServer, calls
<1> QED
  BY <1>1, <1>2, <1>3, <1>4, <1>5, <1>6, <1>7
     DEF Next, Agent, Gateway, Routes, vars, calls, record, Dial, DialReturns,
         DialFails, ReadFails, Receive, HandleCommand, Respond, ProcessExits,
         OnProcessExit, CutLink, HandleConnection, SocketCloses, OnClose

\* Every step keeps all types.
LEMMA TypesStep == Types /\ [Next]_vars => Types'
BY LinksStep, AgentStep, GatewayStep, CallsStep DEF Types

-----------------------------------------------------------------------------
(* Sessions *)

\* Every step keeps the order in which connections are dialled.
LEMMA DialledStep == IInv /\ [Next]_vars => DialledInOrder'
<1> SUFFICES ASSUME IInv, [Next]_vars PROVE DialledInOrder'
  OBVIOUS
<1>0. DialledInOrder /\ LinksOK /\ AgentOK /\ GatewayOK
  BY DEF IInv, Types
<1> USE TunnelAssumption DEF Conns, Nil
<1>1. CASE UNCHANGED <<link, dialing, ws>>
  BY <1>0, <1>1 DEF DialledInOrder
<1>2. ASSUME NEW k \in Conns, Dial(k) PROVE DialledInOrder'
  <2>1. /\ link' = [link EXCEPT ![k] = "up"] /\ dialing' = k /\ UNCHANGED ws
        /\ link[k] = "none" /\ \A j \in 1..(k - 1) : link[j] # "none"
    BY <1>2 DEF Dial, Fresh, gateway
  <2>2. \A j \in Conns : j > k => link[j] = "none"
    BY <1>0, <2>1 DEF DialledInOrder
  <2>3. \A j \in Conns : link'[j] = IF j = k THEN "up" ELSE link[j]
    BY <1>0, <2>1 DEF LinksOK
  <2>4. \A j \in Conns : link'[j] # "none" <=> j <= k
    BY <2>1, <2>2, <2>3
  <2> QED
    BY <1>0, <2>1, <2>3, <2>4 DEF DialledInOrder
<1>3. ASSUME NEW k \in Conns, DialReturns(k) \/ DialFails(k) \/ CutLink(k)
      PROVE  DialledInOrder'
  <2>1. /\ link' \in {link, [link EXCEPT ![k] = "cut"]} /\ UNCHANGED ws
        /\ dialing' \in {dialing, Nil}
        /\ link' # link => link[k] # "none"
    BY <1>0, <1>3 DEF DialReturns, DialFails, CutLink, links, agent, gateway, DialledInOrder
  <2>2. \A j \in Conns : link'[j] # "none" <=> link[j] # "none"
    BY <1>0, <2>1 DEF LinksOK
  <2>3. /\ \A i, j \in Conns : i < j /\ link'[j] # "none" => link'[i] # "none"
        /\ \A j \in Conns : ws'[j] # "none" => link'[j] # "none"
    BY <1>0, <2>1, <2>2 DEF DialledInOrder
  <2>4. dialing' # Nil => /\ link'[dialing'] # "none"
                          /\ \A j \in Conns : link'[j] # "none" => j <= dialing'
    <3>1. dialing' # Nil => dialing' = dialing /\ dialing \in Conns
      BY <1>0, <2>1 DEF AgentOK
    <3> QED
      BY <1>0, <2>2, <3>1 DEF DialledInOrder
  <2> QED
    BY <2>3, <2>4 DEF DialledInOrder
<1>4. ASSUME NEW k \in Conns, HandleConnection(k) \/ SocketCloses(k) \/ OnClose(k)
      PROVE  DialledInOrder'
  <2>1. /\ UNCHANGED <<link, dialing>> /\ link[k] # "none"
        /\ \A j \in Conns : j # k => ws'[j] = ws[j]
    BY <1>0, <1>4 DEF HandleConnection, SocketCloses, OnClose, links, agent,
                      DialledInOrder, GatewayOK
  <2> QED
    BY <1>0, <2>1 DEF DialledInOrder
<1> QED
  BY <1>1, <1>2, <1>3, <1>4
     DEF Next, Agent, Gateway, Routes, vars, links, agent, gateway, ReadFails, Receive,
         HandleCommand, Respond, ProcessExits, OnProcessExit, ProcessFrame,
         SendCommand, RunLocally, CommandTimeout, RouteGoesOn, DeleteServer

\* Every step keeps the session at the newest socket.
LEMMA SessionStep == IInv /\ [Next]_vars => SessionIsNewest'
<1> SUFFICES ASSUME IInv, [Next]_vars PROVE SessionIsNewest'
  OBVIOUS
<1>0. SessionIsNewest /\ DialledInOrder /\ GatewayOK
  BY DEF IInv, Types
<1> USE TunnelAssumption DEF Conns, Nil
<1>1. CASE UNCHANGED <<ws, session, node>>
  BY <1>0, <1>1 DEF SessionIsNewest
<1>2. ASSUME NEW k \in Conns, HandleConnection(k) PROVE SessionIsNewest'
  <2>1. /\ dialing = k /\ session' = k /\ node' = "ONLINE"
        /\ ws' = [ws EXCEPT ![k] = "OPEN"]
    BY <1>2 DEF HandleConnection
  <2>2. \A j \in Conns : ws[j] # "none" => j <= k
    BY <1>0, <2>1 DEF DialledInOrder
  <2>3. ws'[k] = "OPEN" /\ \A j \in Conns : j # k => ws'[j] = ws[j]
    BY <1>0, <2>1 DEF GatewayOK
  <2> QED
    BY <2>1, <2>2, <2>3 DEF SessionIsNewest
<1>3. ASSUME NEW k \in Conns, SocketCloses(k) PROVE SessionIsNewest'
  <2>1. /\ ws[k] = "OPEN" /\ UNCHANGED <<session, node>>
        /\ ws' = [ws EXCEPT ![k] = "CLOSING"]
    BY <1>3 DEF SocketCloses
  <2>2. ws'[k] = "CLOSING" /\ \A j \in Conns : j # k => ws'[j] = ws[j]
    BY <1>0, <2>1 DEF GatewayOK
  <2> QED
    BY <1>0, <2>1, <2>2 DEF SessionIsNewest, GatewayOK
<1>4. ASSUME NEW k \in Conns, OnClose(k) PROVE SessionIsNewest'
  BY <1>4 DEF OnClose, Forget, SessionIsNewest
<1> QED
  BY <1>1, <1>2, <1>3, <1>4
     DEF Next, Agent, Gateway, Routes, vars, gateway, Dial, DialReturns, DialFails,
         ReadFails, Receive, HandleCommand, Respond, ProcessExits, OnProcessExit,
         CutLink, ProcessFrame, SendCommand, RunLocally, CommandTimeout,
         RouteGoesOn, DeleteServer

-----------------------------------------------------------------------------
(* Calls *)

\* What one step can do to a call: an outcome appears, the call is sent,
\* diverted, given up or answered.
Executes(c) ==
  /\ c = working /\ result[c] = "none"
  /\ \E v \in Results : result' = [result EXCEPT ![c] = v]
  /\ UNCHANGED <<via, promise, pending, ready, kind>>

Sends(c) ==
  /\ promise[c] = "none" /\ session \in Conns
  /\ via' = [via EXCEPT ![c] = session]
  /\ promise' = [promise EXCEPT ![c] = "waiting"]
  /\ pending' = [pending EXCEPT ![session] = @ \cup {c}]
  /\ UNCHANGED <<result, status>>
  /\ \A d \in Cmds : d # c => kind'[d] = kind[d]

Diverts(c) ==
  /\ promise[c] = "none"
  /\ \E r \in Results : promise' = [promise EXCEPT ![c] = r]
  /\ UNCHANGED <<via, pending, result, status>>
  /\ \A d \in Cmds : d # c => kind'[d] = kind[d]

GivesUp(c) ==
  /\ promise[c] = "waiting" /\ via[c] \in Conns
  /\ promise' = [promise EXCEPT ![c] = "rejected"]
  /\ pending' = [pending EXCEPT ![via[c]] = @ \ {c}]
  /\ UNCHANGED <<via, result, kind, status>>

Answers(k, c) ==
  /\ c \in pending[k] /\ result[c] # "none"
  /\ promise' = [promise EXCEPT ![c] = result[c]]
  /\ pending' = [pending EXCEPT ![k] = @ \ {c}]
  /\ UNCHANGED <<via, result, kind, status>>

\* Every step does one of these things to one call, or none to any.
LEMMA CallMoves ==
  ASSUME IInv, [Next]_vars
  PROVE  \/ \E c \in Cmds : Executes(c) \/ Sends(c) \/ Diverts(c) \/ GivesUp(c)
         \/ \E c \in Cmds, k \in Conns : Answers(k, c)
         \/ UNCHANGED <<via, promise, pending, result, kind>>
<1>0. Types /\ AgentOK /\ GatewayOK /\ CallsOK /\ LinksOK
  BY DEF IInv, Types
<1>1. CASE HandleCommand
  <2>1. working \in Cmds /\ result[working] = "none"
    BY <1>0, <1>1 DEF HandleCommand, AgentOK
  <2>2. PICK o \in Outcomes(kind[working]) : result' = [result EXCEPT ![working] = o[3]]
    BY <1>1 DEF HandleCommand
  <2>3. kind[working] \in AllKinds
    BY <1>0, <2>1 DEF CallsOK
  <2>4. o[3] \in Results
    BY <2>3, OutcomeAnswers
  <2>5. UNCHANGED <<via, promise, pending, ready, kind>>
    BY <1>1 DEF HandleCommand, gateway, calls
  <2>6. Executes(working)
    BY <2>1, <2>2, <2>4, <2>5 DEF Executes
  <2> QED
    BY <2>1, <2>6
<1>2. ASSUME NEW c \in Cmds, NEW what \in Kinds, SendCommand(c, what) PROVE Sends(c)
  <2>1. session \in Conns
    BY <1>0, <1>2 DEF SendCommand, IsNodeConnected, GatewayOK
  <2>2. \A d \in Cmds : d # c => kind'[d] = kind[d]
    BY <1>0, <1>2 DEF SendCommand, CallsOK
  <2> QED
    BY <1>2, <2>1, <2>2 DEF SendCommand, Sends, NextCmd, agent, record
<1>3. ASSUME NEW c \in Cmds, NEW what \in Kinds, RunLocally(c, what) PROVE Diverts(c)
  <2>1. \A d \in Cmds : d # c => kind'[d] = kind[d]
    BY <1>0, <1>3 DEF RunLocally, CallsOK
  <2> QED
    BY <1>3, <2>1 DEF RunLocally, Diverts, NextCmd, agent, gateway, record
<1>4. ASSUME NEW c \in Cmds, CommandTimeout(c) PROVE GivesUp(c)
  <2>1. via[c] \in Conns
    <3>1. CallInv /\ promise[c] = "waiting"
      BY <1>4 DEF IInv, CommandTimeout
    <3> QED
      BY <1>0, <3>1 DEF CallInv, CallsOK
  <2> QED
    BY <1>4, <2>1 DEF CommandTimeout, GivesUp, agent, record
<1>5. ASSUME NEW k \in Conns, ProcessFrame(k)
      PROVE  \/ \E c \in Cmds : Answers(k, c)
             \/ UNCHANGED <<via, promise, pending, result, kind>>
  <2>1. UNCHANGED <<via, result, kind>>
    BY <1>5 DEF ProcessFrame, agent
  <2>2. ASSUME NEW c \in Cmds, Head(up[k]) = Resp(c), c \in pending[k],
               promise' = [promise EXCEPT ![c] = result[c]],
               pending' = [pending EXCEPT ![k] = @ \ {c}],
               UNCHANGED status
        PROVE  Answers(k, c)
    <3>1. up[k][1] = Resp(c) /\ 1 \in 1..Len(up[k])
      BY <1>0, <1>5, <2>2, ProcessTakes
    <3>2. Answered(up[k], result)
      BY DEF IInv, FramesInv
    <3>3. result[c] # "none"
      BY <3>1, <3>2 DEF Answered, Resp
    <3> QED
      BY <2>1, <2>2, <3>3 DEF Answers
  <2> QED
    BY <1>0, <1>5, <2>1, <2>2, ProcessSettles
<1> QED
  BY <1>1, <1>2, <1>3, <1>4, <1>5
     DEF Next, Agent, Gateway, Routes, vars, calls, agent, gateway, record, links,
         Dial, DialReturns, DialFails, ReadFails, Receive, Respond, ProcessExits,
         OnProcessExit, CutLink, HandleConnection, SocketCloses, OnClose, Forget,
         RouteGoesOn, DeleteServer

\* Every step keeps what routes have got in agreement with what was done.
LEMMA CallStep == IInv /\ [Next]_vars => CallInv'
<1> SUFFICES ASSUME IInv, [Next]_vars PROVE CallInv'
  OBVIOUS
<1>0. CallInv /\ PendingInv /\ FramesInv /\ AgentOK /\ CallsOK
  BY DEF IInv, Types
<1> USE DEF CallInv
<1>1. ASSUME NEW c \in Cmds, Executes(c) PROVE CallInv'
  <2>1. via[c] # Nil /\ promise[c] \notin Results
    <3>1. via[c] # Nil
      BY <1>0, <1>1 DEF Executes, FramesInv, Cmds, Nil
    <3> QED
      BY <1>0, <1>1, <3>1 DEF Executes, Results
  <2>2. \A d \in Cmds : d # c => result'[d] = result[d]
    BY <1>0, <1>1 DEF Executes, AgentOK
  <2> QED
    BY <1>0, <1>1, <2>1, <2>2 DEF Executes
<1>2. ASSUME NEW c \in Cmds, Sends(c) PROVE CallInv'
  <2>1. via[c] = Nil /\ result[c] = "none" /\ session # Nil
    BY <1>0, <1>2 DEF Sends, Conns, Nil
  <2>2. /\ via'[c] = session /\ promise'[c] = "waiting"
        /\ \A d \in Cmds : d # c => via'[d] = via[d] /\ promise'[d] = promise[d]
    BY <1>0, <1>2 DEF Sends, CallsOK
  <2>3. UNCHANGED result /\ "waiting" \notin Results
    BY <1>2 DEF Sends, Results
  <2> QED
    BY <1>0, <2>1, <2>2, <2>3
<1>3. ASSUME NEW c \in Cmds, Diverts(c) PROVE CallInv'
  <2>1. via[c] = Nil
    BY <1>0, <1>3 DEF Diverts
  <2>2. \A d \in Cmds : d # c => promise'[d] = promise[d]
    BY <1>0, <1>3 DEF Diverts, CallsOK
  <2>3. promise'[c] \in Results /\ "none" \notin Results /\ "waiting" \notin Results
    BY <1>0, <1>3 DEF Diverts, CallsOK, Results
  <2> QED
    BY <1>0, <1>3, <2>1, <2>2, <2>3 DEF Diverts
<1>4. ASSUME NEW c \in Cmds, GivesUp(c) PROVE CallInv'
  <2>1. promise'[c] = "rejected" /\ "rejected" \notin Results
    BY <1>0, <1>4 DEF GivesUp, CallsOK, Results
  <2>2. \A d \in Cmds : d # c => promise'[d] = promise[d]
    BY <1>0, <1>4 DEF GivesUp, CallsOK
  <2> QED
    BY <1>0, <1>4, <2>1, <2>2 DEF GivesUp
<1>5. ASSUME NEW c \in Cmds, NEW k \in Conns, Answers(k, c) PROVE CallInv'
  <2>1. promise'[c] = result[c] /\ result[c] # "none"
    BY <1>0, <1>5 DEF Answers, CallsOK
  <2>2. \A d \in Cmds : d # c => promise'[d] = promise[d]
    BY <1>0, <1>5 DEF Answers, CallsOK
  <2> QED
    BY <1>0, <1>5, <2>1, <2>2 DEF Answers
<1>6. CASE UNCHANGED <<via, promise, pending, result, kind>>
  BY <1>0, <1>6
<1> HIDE DEF CallInv
<1> QED
  BY <1>1, <1>2, <1>3, <1>4, <1>5, <1>6, CallMoves

\* Every step keeps pending only what is waited for.
LEMMA PendingStep == IInv /\ [Next]_vars => PendingInv'
<1> SUFFICES ASSUME IInv, [Next]_vars PROVE PendingInv'
  OBVIOUS
<1>0. PendingInv /\ GatewayOK /\ CallsOK
  BY DEF IInv, Types
<1> USE DEF PendingInv
<1>1. ASSUME NEW c \in Cmds, Executes(c) PROVE PendingInv'
  BY <1>0, <1>1 DEF Executes
<1>2. ASSUME NEW c \in Cmds, Sends(c) PROVE PendingInv'
  <2>1. \A k \in Conns : c \notin pending[k]
    BY <1>0, <1>2 DEF Sends
  <2>2. /\ via'[c] = session /\ promise'[c] = "waiting"
        /\ \A d \in Cmds : d # c => via'[d] = via[d] /\ promise'[d] = promise[d]
    BY <1>0, <1>2 DEF Sends, CallsOK
  <2>3. \A k \in Conns : pending'[k] = IF k = session THEN pending[k] \cup {c} ELSE pending[k]
    BY <1>0, <1>2 DEF Sends, GatewayOK
  <2> SUFFICES ASSUME NEW k \in Conns, NEW d \in pending'[k]
               PROVE  promise'[d] = "waiting" /\ via'[d] = k
    OBVIOUS
  <2>4. CASE d \in pending[k]
    <3>1. d \in Cmds /\ d # c
      BY <1>0, <2>1, <2>4 DEF GatewayOK
    <3> QED
      BY <1>0, <2>2, <2>4, <3>1
  <2>5. CASE d \notin pending[k]
    BY <2>2, <2>3, <2>5
  <2> QED
    BY <2>4, <2>5
<1>3. ASSUME NEW c \in Cmds, Diverts(c) PROVE PendingInv'
  <2>1. \A k \in Conns : c \notin pending[k] /\ pending[k] \subseteq Cmds
    BY <1>0, <1>3 DEF Diverts, GatewayOK
  <2>2. \A d \in Cmds : d # c => promise'[d] = promise[d]
    BY <1>0, <1>3 DEF Diverts, CallsOK
  <2>3. UNCHANGED <<via, pending>>
    BY <1>3 DEF Diverts
  <2> QED
    BY <1>0, <2>1, <2>2, <2>3
<1>4. ASSUME NEW c \in Cmds, NEW k \in Conns, via[c] = k, UNCHANGED via,
             pending' = [pending EXCEPT ![k] = @ \ {c}],
             \A d \in Cmds : d # c => promise'[d] = promise[d]
      PROVE  PendingInv'
  <2> SUFFICES ASSUME NEW j \in Conns, NEW d \in pending'[j]
               PROVE  promise'[d] = "waiting" /\ via'[d] = j
    OBVIOUS
  <2>1. d \in pending[j] /\ (j = k => d # c)
    BY <1>0, <1>4 DEF GatewayOK
  <2>2. d # c
    BY <1>0, <1>4, <2>1
  <2>3. d \in Cmds
    BY <1>0, <2>1 DEF GatewayOK
  <2> QED
    BY <1>0, <1>4, <2>1, <2>2, <2>3
<1>5. ASSUME NEW c \in Cmds, GivesUp(c) PROVE PendingInv'
  <2>1. /\ \A d \in Cmds : d # c => promise'[d] = promise[d]
        /\ UNCHANGED via
        /\ pending' = [pending EXCEPT ![via[c]] = @ \ {c}]
    BY <1>0, <1>5 DEF GivesUp, CallsOK
  <2>2. via[c] \in Conns
    BY <1>0, <1>5 DEF GivesUp
  <2> QED
    BY <1>4, <2>1, <2>2
<1>6. ASSUME NEW c \in Cmds, NEW k \in Conns, Answers(k, c) PROVE PendingInv'
  <2>1. /\ \A d \in Cmds : d # c => promise'[d] = promise[d]
        /\ UNCHANGED via
        /\ pending' = [pending EXCEPT ![k] = @ \ {c}]
        /\ via[c] = k
    BY <1>0, <1>6 DEF Answers, CallsOK
  <2> QED
    BY <1>4, <2>1
<1>7. CASE UNCHANGED <<via, promise, pending, result, kind>>
  BY <1>0, <1>7
<1> HIDE DEF PendingInv
<1> QED
  BY <1>1, <1>2, <1>3, <1>5, <1>6, <1>7, CallMoves

\* No step drops from a session's map what a route still waits for.
LEMMA WaitedStep == IInv /\ [Next]_vars => WaitedInv'
<1> SUFFICES ASSUME IInv, [Next]_vars,
                    NEW d \in Cmds, NEW j \in Conns, promise'[d] = "waiting", via'[d] = j
             PROVE  d \in pending'[j]
  BY DEF WaitedInv
<1>0. WaitedInv /\ CallInv /\ GatewayOK /\ CallsOK /\ AgentOK
  BY DEF IInv, Types
<1>1. ASSUME promise[d] = "waiting", via[d] = j, pending[j] \ pending'[j] \subseteq Cmds \ {d}
      PROVE  d \in pending'[j]
  BY <1>0, <1>1 DEF WaitedInv
<1>2. ASSUME NEW c \in Cmds, Executes(c) PROVE d \in pending'[j]
  BY <1>0, <1>1, <1>2 DEF Executes
<1>3. ASSUME NEW c \in Cmds, Sends(c) PROVE d \in pending'[j]
  <2>1. CASE d = c
    BY <1>0, <1>3, <2>1 DEF Sends, CallsOK, GatewayOK
  <2>2. CASE d # c
    <3>1. promise[d] = "waiting" /\ via[d] = j
      BY <1>0, <1>3, <2>2 DEF Sends, CallsOK
    <3>2. pending[j] \subseteq pending'[j]
      BY <1>0, <1>3 DEF Sends, GatewayOK
    <3> QED
      BY <1>1, <3>1, <3>2
  <2> QED
    BY <2>1, <2>2
<1>4. ASSUME NEW c \in Cmds, Diverts(c) PROVE d \in pending'[j]
  <2>1. d # c
    BY <1>0, <1>4 DEF Diverts, CallsOK, Results
  <2> QED
    BY <1>0, <1>1, <1>4, <2>1 DEF Diverts, CallsOK
<1>5. ASSUME NEW c \in Cmds, NEW k \in Conns, UNCHANGED via, promise'[c] # "waiting",
             \A e \in Cmds : e # c => promise'[e] = promise[e],
             pending' = [pending EXCEPT ![k] = @ \ {c}]
      PROVE  d \in pending'[j]
  <2>1. d # c /\ promise[d] = "waiting" /\ via[d] = j
    BY <1>5
  <2>2. pending[j] \ pending'[j] \subseteq {c} /\ pending[j] \subseteq Cmds
    BY <1>0, <1>5 DEF GatewayOK
  <2> QED
    BY <1>1, <2>1, <2>2
<1>6. ASSUME NEW c \in Cmds, GivesUp(c) PROVE d \in pending'[j]
  <2>1. /\ promise'[c] # "waiting" /\ \A e \in Cmds : e # c => promise'[e] = promise[e]
        /\ UNCHANGED via /\ pending' = [pending EXCEPT ![via[c]] = @ \ {c}]
    BY <1>0, <1>6 DEF GivesUp, CallsOK
  <2>2. via[c] \in Conns
    BY <1>6 DEF GivesUp
  <2> QED
    BY <1>5, <2>1, <2>2
<1>7. ASSUME NEW c \in Cmds, NEW k \in Conns, Answers(k, c) PROVE d \in pending'[j]
  <2>1. /\ promise'[c] = result[c] /\ \A e \in Cmds : e # c => promise'[e] = promise[e]
        /\ UNCHANGED via /\ pending' = [pending EXCEPT ![k] = @ \ {c}]
    BY <1>0, <1>7 DEF Answers, CallsOK
  <2>2. result[c] # "waiting"
    BY <1>0, <1>7 DEF Answers, AgentOK, Results
  <2> QED
    BY <1>5, <2>1, <2>2
<1>8. CASE UNCHANGED <<via, promise, pending, result, kind>>
  BY <1>0, <1>1, <1>8
<1> QED
  BY <1>2, <1>3, <1>4, <1>6, <1>7, <1>8, CallMoves

-----------------------------------------------------------------------------
(* Frames in flight *)

\* No step takes back where a command was sent or what came of it.
LEMMA HistoryStays ==
  ASSUME IInv, [Next]_vars, NEW c \in Cmds
  PROVE  /\ via[c] # Nil => via'[c] = via[c]
         /\ result[c] # "none" => result'[c] = result[c]
<1>0. CallInv /\ AgentOK /\ CallsOK
  BY DEF IInv, Types
<1>1. ASSUME NEW d \in Cmds, Executes(d) \/ Sends(d) \/ Diverts(d) \/ GivesUp(d)
      PROVE  /\ via[c] # Nil => via'[c] = via[c]
             /\ result[c] # "none" => result'[c] = result[c]
  <2>1. /\ Executes(d) => result[d] = "none" /\ via' = via
        /\ Sends(d) => via[d] = Nil /\ result' = result
    BY <1>0 DEF Executes, Sends, CallInv
  <2>2. Executes(d) /\ c # d => result'[c] = result[c]
    BY <1>0 DEF Executes, AgentOK
  <2>3. Sends(d) /\ c # d => via'[c] = via[c]
    BY <1>0 DEF Sends, CallsOK
  <2>4. Diverts(d) \/ GivesUp(d) => UNCHANGED <<via, result>>
    BY DEF Diverts, GivesUp
  <2> QED
    BY <1>1, <2>1, <2>2, <2>3, <2>4
<1>2. ASSUME NEW d \in Cmds, NEW k \in Conns, Answers(k, d)
      PROVE  UNCHANGED <<via, result>>
  BY <1>2 DEF Answers
<1> QED
  BY <1>1, <1>2, CallMoves

\* Commands in flight to the agent on one connection, seen one step later.
LEMMA SentOnStep ==
  ASSUME IInv, [Next]_vars, NEW k \in Conns
  PROVE  SentOn(down'[k], via', k)
<1>0. LinksOK /\ GatewayOK /\ CallsOK /\ SentOn(down[k], via, k)
  BY DEF IInv, Types, FramesInv
<1>1. \A m \in 1..Len(down[k]) : down[k][m] \in Cmds /\ via'[down[k][m]] = k
  <2> SUFFICES ASSUME NEW m \in 1..Len(down[k])
               PROVE  down[k][m] \in Cmds /\ via'[down[k][m]] = k
    OBVIOUS
  <2>1. down[k] \in Seq(Cmds)
    BY <1>0 DEF LinksOK
  <2>2. down[k][m] \in Cmds
    BY <2>1, ElementOfSeq
  <2>3. via[down[k][m]] = k /\ k # Nil
    BY <1>0 DEF SentOn, Conns, Nil
  <2> QED
    BY <2>2, <2>3, HistoryStays
<1>2. CASE down'[k] = down[k]
  BY <1>1, <1>2 DEF SentOn
<1>3. CASE down'[k] = <<>>
  BY <1>3 DEF SentOn
<1>4. ASSUME NEW j \in Conns, Receive(j) PROVE SentOn(down'[k], via', k)
  <2>1. PICK t \in Seq(Cmds) :
          /\ Len(down[j]) \in Nat \ {0} /\ Len(t) = Len(down[j]) - 1
          /\ \A m \in 1..Len(t) : t[m] = down[j][m + 1]
          /\ down' = [down EXCEPT ![j] = t]
    BY <1>0, <1>4, ReceiveTakes
  <2>2. CASE j # k
    BY <1>0, <1>2, <2>1, <2>2 DEF LinksOK
  <2>3. CASE j = k
    <3>1. down'[k] = t
      BY <1>0, <2>1, <2>3 DEF LinksOK
    <3>2. \A m \in 1..Len(t) : m + 1 \in 1..Len(down[k])
      BY <2>1, <2>3
    <3> QED
      BY <1>1, <2>1, <2>3, <3>1, <3>2 DEF SentOn
  <2> QED
    BY <2>2, <2>3
<1>5. ASSUME NEW c \in Cmds, NEW what \in Kinds, SendCommand(c, what)
      PROVE  SentOn(down'[k], via', k)
  <2>1. session \in Conns
    BY <1>0, <1>5 DEF SendCommand, IsNodeConnected, GatewayOK
  <2>2. via'[c] = session
    BY <1>0, <1>5, <2>1 DEF SendCommand, CallsOK
  <2>3. down' \in {down, [down EXCEPT ![session] = Append(down[session], c)]}
    BY <1>5 DEF SendCommand
  <2>4. down'[k] = down[k] \/ (k = session /\ down'[k] = Append(down[k], c))
    BY <1>0, <2>1, <2>3 DEF LinksOK
  <2>5. CASE k = session /\ down'[k] = Append(down[k], c)
    <3> DEFINE s == down[k]
    <3>1. s \in Seq(Cmds)
      BY <1>0 DEF LinksOK
    <3>2. /\ Len(Append(s, c)) = Len(s) + 1 /\ Len(s) \in Nat
          /\ \A i \in 1..Len(s) : Append(s, c)[i] = s[i]
          /\ Append(s, c)[Len(s) + 1] = c
      BY <3>1, Appended, LenProperties
    <3>3. \A i \in 1..Len(s) : via'[s[i]] = k
      BY <1>1
    <3> HIDE DEF s
    <3>4. SentOn(Append(s, c), via', k)
      <4> SUFFICES ASSUME NEW i \in 1..Len(Append(s, c)) PROVE via'[Append(s, c)[i]] = k
        BY DEF SentOn
      <4>1. i \in 1..Len(s) \/ i = Len(s) + 1
        BY <3>2
      <4> QED
        BY <2>2, <2>5, <3>2, <3>3, <4>1
    <3> QED
      BY <2>5, <3>4 DEF s
  <2> QED
    BY <1>2, <2>4, <2>5
<1>6. ASSUME NEW j \in Conns, ReadFails(j) PROVE down'[k] = down[k] \/ down'[k] = <<>>
  BY <1>0, <1>6 DEF ReadFails, LinksOK
<1> QED
  BY <1>2, <1>3, <1>4, <1>5, <1>6
     DEF Next, Agent, Gateway, Routes, vars, links, Dial, DialReturns, DialFails,
         HandleCommand, Respond, ProcessExits, OnProcessExit, CutLink,
         HandleConnection, SocketCloses, OnClose, ProcessFrame, RunLocally,
         CommandTimeout, RouteGoesOn, DeleteServer

\* Frames in flight to the API on one connection, seen one step later.
LEMMA AnsweredStep ==
  ASSUME IInv, [Next]_vars, NEW k \in Conns
  PROVE  Answered(up'[k], result')
<1>0. LinksOK /\ AgentOK /\ Answered(up[k], result) /\ up[k] \in Seq(Frames)
  BY DEF IInv, Types, FramesInv, LinksOK
<1>1. \A m \in 1..Len(up[k]) :
        up[k][m].type = "CMD_RESP" => result'[up[k][m].id] # "none"
  <2> SUFFICES ASSUME NEW m \in 1..Len(up[k]), up[k][m].type = "CMD_RESP"
               PROVE  result'[up[k][m].id] # "none"
    OBVIOUS
  <2>1. up[k][m] \in Frames
    BY <1>0, ElementOfSeq
  <2>2. PICK c \in Cmds : up[k][m] = Resp(c)
    BY <2>1 DEF Frames, Crash
  <2>3. up[k][m].id = c
    BY <2>2 DEF Resp
  <2>4. result[c] # "none"
    BY <1>0, <2>3 DEF Answered
  <2> QED
    BY <2>3, <2>4, HistoryStays
<1>2. CASE up'[k] = up[k]
  BY <1>1, <1>2 DEF Answered
<1>3. CASE up'[k] = <<>>
  BY <1>3 DEF Answered
<1>4. ASSUME NEW f \in Frames, SendFrame(f),
             f.type = "CMD_RESP" => result'[f.id] # "none"
      PROVE  Answered(up'[k], result')
  <2>1. up'[k] = up[k] \/ up'[k] = Append(up[k], f)
    <3>1. CASE up' = up
      BY <3>1
    <3>2. ASSUME NEW j \in Conns, up' = [up EXCEPT ![j] = Append(up[j], f)]
          PROVE  up'[k] = up[k] \/ up'[k] = Append(up[k], f)
      BY <1>0, <3>2 DEF LinksOK
    <3> QED
      BY <1>0, <1>4, <3>1, <3>2, SendAppends DEF AgentOK
  <2>2. CASE up'[k] = Append(up[k], f)
    <3> DEFINE s == up[k]
    <3>1. /\ Len(Append(s, f)) = Len(s) + 1 /\ Len(s) \in Nat
          /\ \A i \in 1..Len(s) : Append(s, f)[i] = s[i]
          /\ Append(s, f)[Len(s) + 1] = f
      BY <1>0, Appended, LenProperties
    <3>2. \A i \in 1..Len(s) : s[i].type = "CMD_RESP" => result'[s[i].id] # "none"
      BY <1>1
    <3> HIDE DEF s
    <3>3. Answered(Append(s, f), result')
      <4> SUFFICES ASSUME NEW i \in 1..Len(Append(s, f)),
                          Append(s, f)[i].type = "CMD_RESP"
                   PROVE  result'[Append(s, f)[i].id] # "none"
        BY DEF Answered
      <4>1. i \in 1..Len(s) \/ i = Len(s) + 1
        BY <3>1
      <4> QED
        BY <1>4, <3>1, <3>2, <4>1
    <3> QED
      BY <2>2, <3>3 DEF s
  <2> QED
    BY <1>2, <2>1, <2>2
<1>5. CASE Respond
  <2>1. working \in Cmds /\ result[working] # "none" /\ SendFrame(Resp(working))
    BY <1>0, <1>5 DEF Respond, AgentOK
  <2>2. Resp(working) \in Frames /\ Resp(working).id = working
    BY <2>1 DEF Frames, Resp
  <2>3. result'[working] # "none"
    BY <2>1, HistoryStays
  <2> QED
    BY <1>4, <2>1, <2>2, <2>3
<1>6. CASE OnProcessExit
  <2>1. Crash \in Frames /\ Crash.type # "CMD_RESP" /\ SendFrame(Crash)
    BY <1>6 DEF OnProcessExit, Frames, Crash
  <2> QED
    BY <1>4, <2>1
<1>7. ASSUME NEW j \in Conns, ProcessFrame(j) PROVE Answered(up'[k], result')
  <2>1. /\ Len(up[j]) \in Nat \ {0}
        /\ \E t \in Seq(Frames) :
              /\ Len(t) = Len(up[j]) - 1
              /\ \A m \in 1..Len(t) : t[m] = up[j][m + 1]
              /\ up' = [up EXCEPT ![j] = t]
    BY <1>0, <1>7, ProcessTakes
  <2>2. PICK t \in Seq(Frames) :
          /\ Len(t) = Len(up[j]) - 1
          /\ \A m \in 1..Len(t) : t[m] = up[j][m + 1]
          /\ up' = [up EXCEPT ![j] = t]
    BY <2>1
  <2>3. CASE j # k
    BY <1>0, <1>2, <2>2, <2>3 DEF LinksOK
  <2>4. CASE j = k
    <3>1. up'[k] = t
      BY <1>0, <2>2, <2>4 DEF LinksOK
    <3>2. \A m \in 1..Len(t) : m + 1 \in 1..Len(up[k])
      BY <2>1, <2>2, <2>4
    <3> QED
      BY <1>1, <2>2, <2>4, <3>1, <3>2 DEF Answered
  <2> QED
    BY <2>3, <2>4
<1>8. ASSUME NEW j \in Conns, OnClose(j) PROVE up'[k] = up[k] \/ up'[k] = <<>>
  BY <1>0, <1>8 DEF OnClose, LinksOK
<1> QED
  BY <1>2, <1>3, <1>5, <1>6, <1>7, <1>8
     DEF Next, Agent, Gateway, Routes, vars, links, Dial, DialReturns, DialFails,
         ReadFails, Receive, HandleCommand, ProcessExits, CutLink,
         HandleConnection, SocketCloses, SendCommand, RunLocally, CommandTimeout,
         RouteGoesOn, DeleteServer

\* Every step keeps the origin of the frames in flight.
LEMMA FramesStep == IInv /\ [Next]_vars => FramesInv'
<1> SUFFICES ASSUME IInv, [Next]_vars PROVE FramesInv'
  OBVIOUS
<1>0. LinksOK /\ AgentOK /\ FramesInv
  BY DEF IInv, Types
<1>1. ASSUME working' # Nil PROVE via'[working'] # Nil
  <2>1. CASE working' = working
    <3>1. working \in Cmds /\ via[working] # Nil
      BY <1>0, <1>1, <2>1 DEF FramesInv, AgentOK
    <3> QED
      BY <2>1, <3>1, HistoryStays
  <2>2. ASSUME NEW k \in Conns, Receive(k) PROVE via'[working'] # Nil
    <3>1. working' = down[k][1] /\ 1 \in 1..Len(down[k]) /\ working' \in Cmds
      BY <1>0, <2>2, ReceiveTakes
    <3>2. via[working'] = k /\ k # Nil
      BY <1>0, <3>1 DEF FramesInv, SentOn, Conns, Nil
    <3>3. ASSUME NEW c \in Cmds, via[c] # Nil PROVE via'[c] # Nil
      BY <3>3, HistoryStays
    <3>4. UNCHANGED via
      BY <2>2 DEF Receive, calls
    <3> QED
      BY <3>2, <3>4
  <2> QED
    BY <1>1, <2>1, <2>2
       DEF Next, Agent, Gateway, Routes, vars, agent, Dial, DialReturns, DialFails,
           ReadFails, HandleCommand, Respond, ProcessExits, OnProcessExit, CutLink,
           HandleConnection, SocketCloses, OnClose, ProcessFrame, SendCommand,
           RunLocally, CommandTimeout, RouteGoesOn, DeleteServer
<1> QED
  BY <1>1, SentOnStep, AnsweredStep DEF FramesInv

-----------------------------------------------------------------------------
(* The record *)

\* What made the record ONLINE stays true.
LEMMA CauseStays ==
  ASSUME IInv, [Next]_vars, NEW c \in Cmds, promise[c] = "ok",
         via[c] # Nil => result[c] = "ok"
  PROVE  /\ kind'[c] = kind[c] /\ promise'[c] = "ok"
         /\ via'[c] # Nil => result'[c] = "ok"
<1>0. CallInv /\ PendingInv /\ AgentOK /\ CallsOK
  BY DEF IInv, Types
<1>1. via[c] # Nil => result'[c] = "ok"
  BY HistoryStays
<1>2. ASSUME NEW d \in Cmds, Executes(d) \/ Sends(d) \/ Diverts(d) \/ GivesUp(d)
      PROVE  kind'[c] = kind[c] /\ promise'[c] = promise[c] /\ via'[c] = via[c]
  <2>1. CASE Executes(d)
    BY <2>1 DEF Executes
  <2>2. CASE Sends(d) \/ Diverts(d) \/ GivesUp(d)
    <3>1. d # c
      BY <2>2 DEF Sends, Diverts, GivesUp
    <3>2. kind'[c] = kind[c]
      BY <2>2, <3>1 DEF Sends, Diverts, GivesUp
    <3>3. promise'[c] = promise[c]
      BY <1>0, <2>2, <3>1 DEF Sends, Diverts, GivesUp, CallsOK
    <3>4. via'[c] = via[c]
      BY <1>0, <2>2, <3>1 DEF Sends, Diverts, GivesUp, CallsOK
    <3> QED
      BY <3>2, <3>3, <3>4
  <2> QED
    BY <1>2, <2>1, <2>2
<1>3. ASSUME NEW d \in Cmds, NEW k \in Conns, Answers(k, d)
      PROVE  kind'[c] = kind[c] /\ promise'[c] = promise[c] /\ via'[c] = via[c]
  <2>1. d # c
    BY <1>0, <1>3 DEF Answers, PendingInv
  <2> QED
    BY <1>0, <1>3, <2>1 DEF Answers, CallsOK
<1> QED
  BY <1>1, <1>2, <1>3, CallMoves

\* Every step keeps the record ONLINE only for a cause.
LEMMA CauseStep == IInv /\ [Next]_vars => OnlineHasCause'
<1> SUFFICES ASSUME IInv, [Next]_vars, status' = "ONLINE"
             PROVE  \E c \in Cmds : /\ kind'[c] \in {"START", "RESTART"}
                                    /\ promise'[c] = "ok"
                                    /\ via'[c] # Nil => result'[c] = "ok"
  BY DEF OnlineHasCause
<1>0. CallInv /\ CallsOK /\ OnlineHasCause
  BY DEF IInv, Types
<1>1. CASE status = "ONLINE"
  <2>1. PICK c \in Cmds : /\ kind[c] \in {"START", "RESTART"}
                          /\ promise[c] = "ok"
                          /\ via[c] # Nil => result[c] = "ok"
    BY <1>0, <1>1 DEF OnlineHasCause
  <2> QED
    BY <2>1, CauseStays
<1>2. CASE status # "ONLINE"
  <2>1. RouteGoesOn
    BY <1>2
       DEF Next, Agent, Gateway, Routes, vars, record, Dial, DialReturns, DialFails,
           ReadFails, Receive, HandleCommand, Respond, ProcessExits, OnProcessExit,
           CutLink, HandleConnection, SocketCloses, OnClose, ProcessFrame, OnCrash,
           OnResponse, SendCommand, RunLocally, CommandTimeout, DeleteServer
  <2>2. Head(ready) \in Cmds
    BY <1>0, <2>1, HeadTailProperties DEF CallsOK, RouteGoesOn
  <2>3. promise[Head(ready)] = "ok" /\ kind[Head(ready)] \in {"START", "RESTART"}
    BY <1>2, <2>1 DEF RouteGoesOn, SetStatus
  <2>4. via[Head(ready)] # Nil => result[Head(ready)] = "ok"
    BY <1>0, <2>2, <2>3 DEF CallInv, Results
  <2> QED
    BY <2>2, <2>3, <2>4, CauseStays
<1> QED
  BY <1>1, <1>2

-----------------------------------------------------------------------------
(* Theorems *)

\* The invariant holds in every reachable state.
THEOREM TunnelInvariant == Spec => []IInv
<1>1. IInv /\ [Next]_vars => IInv'
  BY TypesStep, DialledStep, SessionStep, CallStep, PendingStep, WaitedStep, FramesStep,
     CauseStep
     DEF IInv
<1> QED
  BY <1>1, InitIInv, PTL DEF Spec

\* However many connections follow one another and however late the closes
\* of old sockets are handled, the session map never points back to one.
THEOREM SessionsAreNewest == Spec => []SessionIsNewest
BY TunnelInvariant, PTL DEF IInv

\* The record is ONLINE only on the strength of a START or RESTART whose own
\* outcome was a success.
THEOREM OnlineIsCaused == Spec => []OnlineHasCause
BY TunnelInvariant, PTL DEF IInv

\* However connections break and follow one another, a route waits exactly for
\* the entries, and timers, its session still has.
THEOREM WaitingIsAlwaysPending == Spec => []WaitingIsPending
<1>1. IInv => WaitingIsPending
  BY DEF IInv, PendingInv, WaitedInv, WaitingIsPending, Types, GatewayOK
<1> QED
  BY <1>1, TunnelInvariant, PTL

-----------------------------------------------------------------------------
(* Remote calls *)

\* RemoteCall's view of the calls.
seen == [c \in Cmds |-> IF via[c] = Nil /\ promise[c] # "none"
                        THEN "local" ELSE promise[c]]

\* A step of the tunnel is a step, or a stutter, of remote calls.
LEMMA CallsRefine == IInv /\ [Next]_vars => [Remote!RNext]_(Remote!rvars)
<1> SUFFICES ASSUME IInv, [Next]_vars PROVE [Remote!RNext]_(Remote!rvars)
  OBVIOUS
<1>0. CallInv /\ PendingInv /\ FramesInv /\ AgentOK /\ CallsOK
  BY DEF IInv, Types
<1> USE DEF Remote!RNext, Remote!rvars
<1>1. ASSUME NEW c \in Cmds, Executes(c) PROVE Remote!CarryOut(c)
  <2>1. via[c] # Nil
    BY <1>0, <1>1 DEF Executes, FramesInv, Cmds, Nil
  <2>2. promise[c] \in Results \cup {"waiting", "rejected"}
    BY <1>0, <2>1 DEF CallInv, CallsOK
  <2> QED
    BY <1>1, <2>1, <2>2 DEF Remote!CarryOut, Remote!Answers, Executes, Results
<1>2. ASSUME NEW c \in Cmds, Sends(c) PROVE Remote!Issue(c)
  <2>1. via[c] = Nil /\ session # Nil
    BY <1>0, <1>2 DEF Sends, CallInv, Conns, Nil
  <2>2. seen' = [seen EXCEPT ![c] = "waiting"]
    BY <1>0, <1>2, <2>1 DEF Sends, seen, CallsOK
  <2> QED
    BY <1>2, <2>1, <2>2 DEF Remote!Issue, Sends, seen
<1>3. ASSUME NEW c \in Cmds, Diverts(c) PROVE Remote!Divert(c)
  <2>1. via[c] = Nil
    BY <1>0, <1>3 DEF Diverts, CallInv
  <2>2. seen' = [seen EXCEPT ![c] = "local"]
    BY <1>0, <1>3, <2>1 DEF Diverts, seen, CallsOK, Results
  <2> QED
    BY <1>3, <2>1, <2>2 DEF Remote!Divert, Diverts, seen
<1>4. ASSUME NEW c \in Cmds, GivesUp(c) PROVE Remote!GiveUp(c)
  <2>1. via[c] # Nil
    BY <1>4 DEF GivesUp, Conns, Nil
  <2>2. seen' = [seen EXCEPT ![c] = "rejected"]
    BY <1>0, <1>4, <2>1 DEF GivesUp, seen, CallsOK
  <2> QED
    BY <1>4, <2>1, <2>2 DEF Remote!GiveUp, GivesUp, seen
<1>5. ASSUME NEW c \in Cmds, NEW k \in Conns, Answers(k, c) PROVE Remote!Answer(c)
  <2>1. via[c] # Nil /\ promise[c] = "waiting" /\ result[c] # "none"
    BY <1>0, <1>5 DEF Answers, PendingInv, Conns, Nil
  <2>2. seen' = [seen EXCEPT ![c] = result[c]]
    BY <1>0, <1>5, <2>1 DEF Answers, seen, CallsOK
  <2> QED
    BY <1>5, <2>1, <2>2 DEF Remote!Answer, Answers, seen
<1>6. CASE UNCHANGED <<via, promise, pending, result, kind>>
  BY <1>6
<1> QED
  BY <1>1, <1>2, <1>3, <1>4, <1>5, <1>6, CallMoves

\* The tunnel implements RemoteCall, for any number of connections, requests,
\* broken links, timeouts and crashes: what BackupJobs builds on.
THEOREM CallsAreRemote == Spec => CallsAreRemoteCalls
<1>1. Init => Remote!RInit
  BY DEF Init, Remote!RInit
<1> QED
  BY <1>1, CallsRefine, TunnelInvariant, PTL
     DEF Spec, CallsAreRemoteCalls, Remote!RSpec


-----------------------------------------------------------------------------
(* The order of execution *)

Increasing(s) == \A i, j \in 1..Len(s) : i < j => s[i] < s[j]
AllBelow(s, c) == \A i \in 1..Len(s) : s[i] < c

\* Commands are numbered as they are issued, and later ones are never sent on
\* older connections.
SentInOrder ==
  /\ \A c, d \in Cmds : c < d /\ promise[d] # "none" => promise[c] # "none"
  /\ \A c \in Cmds : via[c] # Nil => ws[via[c]] # "none"
  /\ \A c, d \in Cmds : c < d /\ via[c] # Nil /\ via[d] # Nil => via[c] <= via[d]

\* A link carries the commands in the order they were sent, and nothing before
\* it is dialled.
DownInOrder ==
  \A k \in Conns :
    /\ Increasing(down[k])
    /\ link[k] = "none" => down[k] = <<>>

\* What is in flight on the connection the agent reads, or is about to read,
\* was sent after everything it has executed or is executing.
StillAhead ==
  /\ conn # Nil => dialing = Nil
  /\ \A k \in {conn, dialing} \ {Nil} : \A m \in 1..Len(down[k]) :
       /\ AllBelow(executed, down[k][m])
       /\ working # Nil => working < down[k][m]

\* Only what was sent is executed, each command after all before it.
DoneInOrder ==
  /\ executed \in Seq(Cmds)
  /\ Increasing(executed)
  /\ \A i \in 1..Len(executed) : via[executed[i]] # Nil
  /\ working # Nil /\ result[working] = "none" => AllBelow(executed, working)

OInv == SentInOrder /\ DownInOrder /\ StillAhead /\ DoneInOrder

\* Appending keeps an increasing sequence increasing if the new element is above
\* all that are there.
LEMMA AppendIncreases ==
  ASSUME NEW s \in Seq(Cmds), NEW c \in Cmds, Increasing(s), AllBelow(s, c)
  PROVE  Increasing(Append(s, c))
<1>1. /\ Len(Append(s, c)) = Len(s) + 1 /\ Len(s) \in Nat
      /\ \A i \in 1..Len(s) : Append(s, c)[i] = s[i]
      /\ Append(s, c)[Len(s) + 1] = c
  BY Appended, LenProperties
<1> DEFINE t == Append(s, c)
<1> HIDE DEF t
<1> SUFFICES ASSUME NEW i \in 1..Len(t), NEW j \in 1..Len(t), i < j PROVE t[i] < t[j]
  BY DEF Increasing, t
<1>2. i \in 1..Len(s) /\ t[i] = s[i]
  BY <1>1 DEF t
<1>3. CASE j \in 1..Len(s)
  BY <1>1, <1>2, <1>3 DEF Increasing, t
<1>4. CASE j = Len(s) + 1
  BY <1>1, <1>2, <1>4 DEF AllBelow, t
<1> QED
  BY <1>1, <1>3, <1>4 DEF t

\* What one step does to the commands in flight on one connection.
LEMMA DownMoves ==
  ASSUME IInv, [Next]_vars, NEW k \in Conns
  PROVE  \/ down'[k] \in {down[k], <<>>}
         \/ /\ Receive(k) /\ Len(down[k]) \in Nat \ {0}
            /\ Len(down'[k]) = Len(down[k]) - 1
            /\ \A m \in 1..Len(down'[k]) : down'[k][m] = down[k][m + 1]
         \/ \E c \in Cmds, what \in Kinds :
              SendCommand(c, what) /\ session = k /\ down'[k] = Append(down[k], c)
<1>0. LinksOK /\ GatewayOK
  BY DEF IInv, Types
<1>1. ASSUME NEW j \in Conns, Receive(j)
      PROVE  \/ down'[k] = down[k]
             \/ /\ j = k /\ Len(down[k]) \in Nat \ {0}
                /\ Len(down'[k]) = Len(down[k]) - 1
                /\ \A m \in 1..Len(down'[k]) : down'[k][m] = down[k][m + 1]
  <2>1. PICK t \in Seq(Cmds) :
          /\ Len(down[j]) \in Nat \ {0} /\ Len(t) = Len(down[j]) - 1
          /\ \A m \in 1..Len(t) : t[m] = down[j][m + 1]
          /\ down' = [down EXCEPT ![j] = t]
    BY <1>0, <1>1, ReceiveTakes
  <2> QED
    BY <1>0, <2>1 DEF LinksOK
<1>2. ASSUME NEW c \in Cmds, NEW what \in Kinds, SendCommand(c, what)
      PROVE  down'[k] = down[k] \/ (session = k /\ down'[k] = Append(down[k], c))
  <2>1. session \in Conns
    BY <1>0, <1>2 DEF SendCommand, IsNodeConnected, GatewayOK
  <2>2. down' \in {down, [down EXCEPT ![session] = Append(down[session], c)]}
    BY <1>2 DEF SendCommand
  <2> QED
    BY <1>0, <2>1, <2>2 DEF LinksOK
<1>3. ASSUME NEW j \in Conns, ReadFails(j) PROVE down'[k] \in {down[k], <<>>}
  BY <1>0, <1>3 DEF ReadFails, LinksOK
<1> QED
  BY <1>1, <1>2, <1>3
     DEF Next, Agent, Gateway, Routes, vars, links, Dial, DialReturns, DialFails,
         HandleCommand, Respond, ProcessExits, OnProcessExit, CutLink,
         HandleConnection, SocketCloses, OnClose, ProcessFrame, RunLocally,
         CommandTimeout, RouteGoesOn, DeleteServer

\* A step issues a command, or leaves alone where commands were sent and which
\* of them there are.
LEMMA Issued ==
  ASSUME IInv, [Next]_vars
  PROVE  \/ \E c \in Cmds, what \in Kinds : SendCommand(c, what) \/ RunLocally(c, what)
         \/ /\ via' = via
            /\ \A c \in Cmds : promise'[c] = "none" <=> promise[c] = "none"
<1>0. CallsOK /\ LinksOK /\ Types /\ PendingInv
  BY DEF IInv, Types
<1>1. ASSUME NEW c \in Cmds, CommandTimeout(c)
      PROVE  via' = via /\ \A d \in Cmds : promise'[d] = "none" <=> promise[d] = "none"
  BY <1>0, <1>1 DEF CommandTimeout, CallsOK
<1>2. ASSUME NEW k \in Conns, ProcessFrame(k)
      PROVE  via' = via /\ \A d \in Cmds : promise'[d] = "none" <=> promise[d] = "none"
  <2>1. via' = via
    BY <1>2 DEF ProcessFrame
  <2>2. ASSUME NEW c \in Cmds, Head(up[k]) = Resp(c), c \in pending[k],
               promise' = [promise EXCEPT ![c] = result[c]]
        PROVE  \A d \in Cmds : promise'[d] = "none" <=> promise[d] = "none"
    <3>1. up[k][1] = Resp(c) /\ 1 \in 1..Len(up[k])
      BY <1>0, <1>2, <2>2, ProcessTakes
    <3>2. Answered(up[k], result)
      BY DEF IInv, FramesInv
    <3>3. result[c] # "none"
      BY <3>1, <3>2 DEF Answered, Resp
    <3>4. promise[c] = "waiting"
      BY <1>0, <2>2 DEF PendingInv
    <3> QED
      BY <1>0, <2>2, <3>3, <3>4 DEF CallsOK
  <2> QED
    BY <1>0, <1>2, <2>1, <2>2, ProcessSettles
<1> QED
  BY <1>1, <1>2
     DEF Next, Agent, Gateway, Routes, vars, calls, Dial, DialReturns, DialFails,
         ReadFails, Receive, HandleCommand, Respond, ProcessExits, OnProcessExit,
         CutLink, HandleConnection, SocketCloses, OnClose, RouteGoesOn, DeleteServer

\* A command about to be issued is above all that were sent.
LEMMA NewestIsAbove ==
  ASSUME IInv, SentInOrder, NEW c \in Cmds, promise[c] = "none",
         NEW d \in Cmds, via[d] # Nil
  PROVE  d < c
<1>1. promise[d] # "none"
  BY DEF IInv, CallInv
<1>2. ~(c < d)
  BY <1>1 DEF SentInOrder
<1> QED
  BY <1>1, <1>2, TunnelAssumption DEF Cmds

\* What the agent has executed and is executing after one step.
LEMMA WorkMoves ==
  ASSUME IInv, [Next]_vars
  PROVE  \/ HandleCommand
         \/ \E k \in Conns : Receive(k)
         \/ UNCHANGED <<executed, result>> /\ working' \in {working, Nil}
BY DEF Next, Agent, Gateway, Routes, vars, agent, Dial, DialReturns, DialFails, ReadFails,
       Respond, ProcessExits, OnProcessExit, CutLink, HandleConnection, SocketCloses,
       OnClose, ProcessFrame, SendCommand, RunLocally, CommandTimeout, RouteGoesOn,
       DeleteServer

\* Sockets and links once there have been there.
LEMMA SocketsStay ==
  ASSUME IInv, [Next]_vars, NEW k \in Conns
  PROVE  /\ ws[k] # "none" => ws'[k] # "none"
         /\ link'[k] = "none" => link[k] = "none"
<1>0. GatewayOK /\ LinksOK
  BY DEF IInv, Types
<1>1. ASSUME NEW j \in Conns, HandleConnection(j) \/ SocketCloses(j) \/ OnClose(j)
      PROVE  (ws[k] # "none" => ws'[k] # "none") /\ link' = link
  BY <1>0, <1>1 DEF HandleConnection, SocketCloses, OnClose, GatewayOK, links
<1>2. ASSUME NEW j \in Conns, Dial(j) \/ DialFails(j) \/ CutLink(j)
      PROVE  (link'[k] = "none" => link[k] = "none") /\ ws' = ws
  BY <1>0, <1>2 DEF Dial, DialFails, CutLink, LinksOK, gateway
<1> QED
  BY <1>1, <1>2
     DEF Next, Agent, Gateway, Routes, vars, gateway, links, DialReturns, ReadFails,
         Receive, HandleCommand, Respond, ProcessExits, OnProcessExit, ProcessFrame,
         SendCommand, RunLocally, CommandTimeout, RouteGoesOn, DeleteServer

\* Every step keeps the order in which commands are issued.
LEMMA SentInOrderStep == IInv /\ SentInOrder /\ [Next]_vars => SentInOrder'
<1> SUFFICES ASSUME IInv, SentInOrder, [Next]_vars PROVE SentInOrder'
  OBVIOUS
<1>0. CallsOK /\ GatewayOK /\ CallInv /\ SessionIsNewest
  BY DEF IInv, Types
<1> USE TunnelAssumption DEF Cmds, Conns, Nil
<1>1. ASSUME via' = via, \A c \in Cmds : promise'[c] = "none" <=> promise[c] = "none"
      PROVE  SentInOrder'
  <2>1. \A c \in Cmds : via'[c] # Nil => ws'[via'[c]] # "none"
    BY <1>0, <1>1, SocketsStay DEF SentInOrder, CallsOK
  <2> QED
    BY <1>1, <2>1 DEF SentInOrder
<1>2. ASSUME NEW c \in Cmds, NextCmd(c), NEW v \in {"ok", "failed", "waiting"},
             promise' = [promise EXCEPT ![c] = v]
      PROVE  \A a, b \in Cmds : a < b /\ promise'[b] # "none" => promise'[a] # "none"
  <2>1. \A d \in Cmds : d < c => promise[d] # "none"
    BY <1>2 DEF NextCmd
  <2>2. promise[c] = "none" /\ promise'[c] = v /\ \A d \in Cmds : d # c => promise'[d] = promise[d]
    BY <1>0, <1>2 DEF NextCmd, CallsOK
  <2> QED
    BY <1>2, <2>1, <2>2 DEF SentInOrder
<1>3. ASSUME NEW c \in Cmds, NEW what \in Kinds, SendCommand(c, what) PROVE SentInOrder'
  <2>1. /\ session \in Conns /\ ws[session] = "OPEN" /\ UNCHANGED ws
        /\ via' = [via EXCEPT ![c] = session] /\ promise[c] = "none"
    BY <1>0, <1>3 DEF SendCommand, IsNodeConnected, GatewayOK, NextCmd
  <2>2. via'[c] = session /\ \A d \in Cmds : d # c => via'[d] = via[d]
    BY <1>0, <2>1 DEF CallsOK
  <2>3. \A d \in Cmds : via'[d] # Nil => ws'[via'[d]] # "none"
    BY <2>1, <2>2 DEF SentInOrder
  <2>4. \A d \in Cmds : via[d] # Nil => via[d] <= session /\ d < c
    <3> SUFFICES ASSUME NEW d \in Cmds, via[d] # Nil PROVE via[d] <= session /\ d < c
      OBVIOUS
    <3>1. via[d] \in Conns /\ ws[via[d]] # "none"
      BY <1>0 DEF CallsOK, SentInOrder
    <3>2. via[d] <= session
      BY <1>0, <2>1, <3>1 DEF SessionIsNewest
    <3> QED
      BY <2>1, <3>2, NewestIsAbove
  <2>5. \A a, b \in Cmds : a < b /\ via'[a] # Nil /\ via'[b] # Nil => via'[a] <= via'[b]
    <3> SUFFICES ASSUME NEW a \in Cmds, NEW b \in Cmds, a < b, via'[a] # Nil, via'[b] # Nil
                 PROVE  via'[a] <= via'[b]
      OBVIOUS
    <3>1. a # c
      BY <2>2, <2>4
    <3> QED
      BY <2>2, <2>4, <3>1 DEF SentInOrder
  <2>6. \A a, b \in Cmds : a < b /\ promise'[b] # "none" => promise'[a] # "none"
    BY <1>2, <1>3 DEF SendCommand
  <2> QED
    BY <2>3, <2>5, <2>6 DEF SentInOrder
<1>4. ASSUME NEW c \in Cmds, NEW what \in Kinds, RunLocally(c, what) PROVE SentInOrder'
  <2>1. \A a, b \in Cmds : a < b /\ promise'[b] # "none" => promise'[a] # "none"
    BY <1>2, <1>4 DEF RunLocally, Results
  <2>2. UNCHANGED <<via, ws>>
    BY <1>4 DEF RunLocally, gateway
  <2> QED
    BY <2>1, <2>2 DEF SentInOrder
<1> QED
  BY <1>1, <1>3, <1>4, Issued

\* Every step keeps the commands in flight in the order they were sent.
LEMMA DownInOrderStep ==
  IInv /\ SentInOrder /\ DownInOrder /\ [Next]_vars => DownInOrder'
<1> SUFFICES ASSUME IInv, SentInOrder, DownInOrder, [Next]_vars, NEW k \in Conns
             PROVE  Increasing(down'[k]) /\ (link'[k] = "none" => down'[k] = <<>>)
  BY DEF DownInOrder
<1>0. LinksOK /\ DialledInOrder /\ down[k] \in Seq(Cmds) /\ Len(down[k]) \in Nat
  <2>1. LinksOK /\ DialledInOrder
    BY DEF IInv, Types
  <2>2. down[k] \in Seq(Cmds)
    BY <2>1 DEF LinksOK
  <2> QED
    BY <2>1, <2>2, LenProperties
<1>1. Increasing(down[k]) /\ (link'[k] = "none" => down[k] = <<>>)
  BY SocketsStay DEF DownInOrder
<1>2. CASE down'[k] \in {down[k], <<>>}
  BY <1>1, <1>2 DEF Increasing
<1>3. ASSUME Receive(k), Len(down[k]) \in Nat \ {0}, Len(down'[k]) = Len(down[k]) - 1,
             \A m \in 1..Len(down'[k]) : down'[k][m] = down[k][m + 1]
      PROVE  Increasing(down'[k]) /\ link'[k] # "none"
  <2>1. Increasing(down'[k])
    BY <1>1, <1>3 DEF Increasing
  <2> QED
    BY <1>1, <1>3, <2>1
<1>4. ASSUME NEW c \in Cmds, NEW what \in Kinds, SendCommand(c, what), session = k,
             down'[k] = Append(down[k], c)
      PROVE  Increasing(down'[k]) /\ link'[k] # "none"
  <2>1. promise[c] = "none" /\ ws[k] = "OPEN" /\ UNCHANGED link
    BY <1>4 DEF SendCommand, NextCmd, IsNodeConnected
  <2>2. \A m \in 1..Len(down[k]) : down[k][m] \in Cmds /\ via[down[k][m]] # Nil
    BY <1>0, ElementOfSeq DEF IInv, FramesInv, SentOn, Conns, Nil
  <2>3. AllBelow(down[k], c)
    BY <2>1, <2>2, NewestIsAbove DEF AllBelow
  <2> QED
    BY <1>0, <1>1, <1>4, <2>1, <2>3, AppendIncreases DEF DialledInOrder
<1> QED
  BY <1>2, <1>3, <1>4, DownMoves, <1>1

\* Every step leaves the agent with commands ahead of it that were sent after
\* those it has executed.
LEMMA StillAheadStep == IInv /\ OInv /\ [Next]_vars => StillAhead'
<1> SUFFICES ASSUME IInv, OInv, [Next]_vars PROVE StillAhead'
  OBVIOUS
<1>0. /\ LinksOK /\ AgentOK /\ DialledInOrder /\ FramesInv
      /\ SentInOrder /\ DownInOrder /\ StillAhead /\ DoneInOrder
  BY DEF IInv, Types, OInv
<1> USE TunnelAssumption DEF Nil
<1>1. /\ conn' # Nil => dialing' = Nil
      /\ \A k \in {conn', dialing'} \ {Nil} :
           k \in {conn, dialing} \/ (k \in Conns /\ Dial(k))
  BY <1>0
     DEF StillAhead, Next, Agent, Gateway, Routes, vars, agent, Dial, DialReturns,
         DialFails, ReadFails, Receive, HandleCommand, Respond, ProcessExits,
         OnProcessExit, CutLink, HandleConnection, SocketCloses, OnClose, ProcessFrame,
         SendCommand, RunLocally, CommandTimeout, RouteGoesOn, DeleteServer
<1> SUFFICES ASSUME NEW k \in {conn', dialing'} \ {Nil}, NEW m \in 1..Len(down'[k])
             PROVE  /\ AllBelow(executed', down'[k][m])
                    /\ working' # Nil => working' < down'[k][m]
  BY <1>1 DEF StillAhead
<1>2. k \in Conns /\ down[k] \in Seq(Cmds) /\ Len(down[k]) \in Nat
  <2>1. k \in Conns
    BY <1>0, <1>1 DEF AgentOK
  <2>2. down[k] \in Seq(Cmds)
    BY <1>0, <2>1 DEF LinksOK
  <2> QED
    BY <2>1, <2>2, LenProperties
<1>3. ~Dial(k)
  BY <1>0, <1>2 DEF Dial, Fresh, DownInOrder
<1>4. k \in {conn, dialing} \ {Nil}
  BY <1>1, <1>2, <1>3 DEF Conns
<1>5. \A n \in 1..Len(down[k]) :
        /\ down[k][n] \in Cmds
        /\ AllBelow(executed, down[k][n])
        /\ working # Nil => working < down[k][n]
  BY <1>0, <1>2, <1>4, ElementOfSeq DEF StillAhead
<1>6. ASSUME NEW d \in Cmds, AllBelow(executed, d), working # Nil => working < d,
             HandleCommand
      PROVE  AllBelow(executed', d) /\ working' < d
  <2>1. executed' = Append(executed, working) /\ working' = working /\ working \in Cmds
    BY <1>0, <1>6 DEF HandleCommand, AgentOK
  <2>2. /\ Len(executed') = Len(executed) + 1 /\ Len(executed) \in Nat
        /\ \A i \in 1..Len(executed) : executed'[i] = executed[i]
        /\ executed'[Len(executed) + 1] = working
    BY <1>0, <2>1, Appended, LenProperties DEF DoneInOrder
  <2>3. working < d
    BY <1>6 DEF HandleCommand
  <2> QED
    BY <1>6, <2>1, <2>2, <2>3 DEF AllBelow
<1>7. ASSUME NEW j \in Conns, Receive(j)
      PROVE  /\ AllBelow(executed', down'[k][m])
             /\ working' # Nil => working' < down'[k][m]
  <2>1. j = k /\ executed' = executed
    BY <1>0, <1>4, <1>7 DEF Receive, StillAhead, Conns
  <2>2. PICK t \in Seq(Cmds) :
          /\ Len(down[k]) \in Nat \ {0} /\ Len(t) = Len(down[k]) - 1
          /\ \A n \in 1..Len(t) : t[n] = down[k][n + 1]
          /\ down' = [down EXCEPT ![k] = t]
          /\ working' = down[k][1]
    BY <1>0, <1>7, <2>1, ReceiveTakes
  <2>3. /\ down'[k][m] = down[k][m + 1]
        /\ 1 \in 1..Len(down[k]) /\ m + 1 \in 1..Len(down[k]) /\ 1 < m + 1
    BY <1>0, <1>2, <2>2 DEF LinksOK
  <2>4. down[k][1] < down[k][m + 1]
    BY <1>0, <1>2, <2>3 DEF DownInOrder, Increasing
  <2> QED
    BY <1>5, <2>1, <2>2, <2>3, <2>4
<1>8. ASSUME ~(\E j \in Conns : Receive(j))
      PROVE  \/ m \in 1..Len(down[k]) /\ down'[k][m] = down[k][m]
             \/ /\ down'[k][m] \in Cmds /\ promise[down'[k][m]] = "none"
                /\ ~HandleCommand
  <2>1. CASE down'[k] \in {down[k], <<>>}
    BY <2>1
  <2>2. ASSUME NEW c \in Cmds, NEW what \in Kinds, SendCommand(c, what),
               down'[k] = Append(down[k], c)
        PROVE  \/ m \in 1..Len(down[k]) /\ down'[k][m] = down[k][m]
               \/ down'[k][m] = c
    BY <1>2, <2>2, Appended
  <2>3. ASSUME NEW c \in Cmds, NEW what \in Kinds, SendCommand(c, what)
        PROVE  promise[c] = "none" /\ ~HandleCommand
    <3>1. promise[c] = "none" /\ promise' = [promise EXCEPT ![c] = "waiting"]
      BY <2>3 DEF SendCommand, NextCmd
    <3>2. promise'[c] # promise[c]
      BY <3>1 DEF IInv, Types, CallsOK
    <3> QED
      BY <3>1, <3>2 DEF HandleCommand, calls
  <2> QED
    BY <1>2, <1>8, <2>1, <2>2, <2>3, DownMoves
<1>9. ASSUME ~(\E j \in Conns : Receive(j)), NEW d \in Cmds, d = down'[k][m],
             promise[d] = "none"
      PROVE  AllBelow(executed, d) /\ (working # Nil => working < d)
  <2>1. \A i \in 1..Len(executed) : executed[i] \in Cmds /\ via[executed[i]] # Nil
    BY <1>0, ElementOfSeq DEF DoneInOrder
  <2>2. AllBelow(executed, d)
    BY <1>0, <1>9, <2>1, NewestIsAbove DEF AllBelow
  <2> QED
    BY <1>0, <1>9, <2>2, NewestIsAbove DEF FramesInv, AgentOK
<1>10. CASE ~(\E j \in Conns : Receive(j))
  <2>1. CASE HandleCommand
    BY <1>5, <1>6, <1>8, <1>10, <2>1
  <2>2. CASE UNCHANGED <<executed, result>> /\ working' \in {working, Nil}
    BY <1>5, <1>8, <1>9, <1>10, <2>2
  <2> QED
    BY <1>10, <2>1, <2>2, WorkMoves
<1> QED
  BY <1>7, <1>10

\* Every step keeps what was executed in order.
LEMMA DoneInOrderStep == IInv /\ OInv /\ [Next]_vars => DoneInOrder'
<1> SUFFICES ASSUME IInv, OInv, [Next]_vars PROVE DoneInOrder'
  OBVIOUS
<1>0. LinksOK /\ AgentOK /\ CallsOK /\ FramesInv /\ DoneInOrder /\ StillAhead
  BY DEF IInv, Types, OInv
<1>1. \A i \in 1..Len(executed) : executed[i] \in Cmds /\ via'[executed[i]] # Nil
  BY <1>0, ElementOfSeq, HistoryStays DEF DoneInOrder
<1>2. CASE UNCHANGED <<executed, result>> /\ working' \in {working, Nil}
  BY <1>0, <1>1, <1>2 DEF DoneInOrder
<1>3. ASSUME NEW j \in Conns, Receive(j) PROVE DoneInOrder'
  <2>1. Len(down[j]) \in Nat \ {0} /\ working' = down[j][1]
    BY <1>0, <1>3, ReceiveTakes
  <2>2. conn = j /\ j # Nil /\ UNCHANGED <<executed, result>>
    BY <1>3 DEF Receive, Conns, Nil
  <2>3. AllBelow(executed, working')
    BY <1>0, <2>1, <2>2 DEF StillAhead
  <2> QED
    BY <1>0, <1>1, <2>2, <2>3 DEF DoneInOrder
<1>4. CASE HandleCommand
  <2>1. /\ working \in Cmds /\ result[working] = "none" /\ via[working] # Nil
        /\ executed' = Append(executed, working) /\ working' = working
    BY <1>0, <1>4 DEF HandleCommand, AgentOK, FramesInv
  <2>2. PICK o \in Outcomes(kind[working]) : result' = [result EXCEPT ![working] = o[3]]
    BY <1>4 DEF HandleCommand
  <2>3. o[3] \in Results
    <3>1. kind[working] \in AllKinds
      BY <1>0, <2>1 DEF CallsOK
    <3> QED
      BY <2>2, <3>1, OutcomeAnswers
  <2>4. result'[working'] # "none"
    BY <1>0, <2>1, <2>2, <2>3 DEF AgentOK, Results
  <2>5. Increasing(executed')
    <3>1. AllBelow(executed, working)
      BY <1>0, <1>4, <2>1 DEF DoneInOrder, HandleCommand
    <3> QED
      BY <1>0, <2>1, <3>1, AppendIncreases DEF DoneInOrder
  <2>6. /\ executed' \in Seq(Cmds)
        /\ Len(executed') = Len(executed) + 1 /\ Len(executed) \in Nat
        /\ \A i \in 1..Len(executed) : executed'[i] = executed[i]
        /\ executed'[Len(executed) + 1] = working
    BY <1>0, <2>1, Appended, LenProperties DEF DoneInOrder
  <2>7. \A i \in 1..Len(executed') : via'[executed'[i]] # Nil
    <3>1. via'[working] # Nil
      BY <2>1, HistoryStays
    <3> SUFFICES ASSUME NEW i \in 1..Len(executed') PROVE via'[executed'[i]] # Nil
      OBVIOUS
    <3>2. i \in 1..Len(executed) \/ i = Len(executed) + 1
      BY <2>6
    <3> QED
      BY <1>1, <2>6, <3>1, <3>2
  <2> QED
    BY <2>4, <2>5, <2>6, <2>7 DEF DoneInOrder
<1> QED
  BY <1>2, <1>3, <1>4, WorkMoves

\* The order of execution holds in every reachable state.
LEMMA OrderInvariant == Spec => []OInv
<1>1. Init => OInv
  BY TunnelAssumption
     DEF Init, OInv, SentInOrder, DownInOrder, StillAhead, DoneInOrder, Increasing,
         AllBelow, Nil
<1>2. IInv /\ OInv /\ [Next]_vars => OInv'
  BY SentInOrderStep, DownInOrderStep, StillAheadStep, DoneInOrderStep DEF OInv
<1> QED
  BY <1>1, <1>2, TunnelInvariant, PTL DEF Spec

\* Across any number of reconnects, timeouts and late closes no command is
\* executed twice, none overtakes another, and none of an old connection
\* follows one of a newer connection.
THEOREM ExecutionIsInOrder == Spec => []ExecutedInOrder
<1>1. IInv /\ OInv => ExecutedInOrder
  <2> SUFFICES ASSUME IInv, OInv, NEW i \in 1..Len(executed), NEW j \in 1..Len(executed), i < j
               PROVE  executed[i] < executed[j] /\ via[executed[i]] <= via[executed[j]]
    BY DEF ExecutedInOrder
  <2>1. /\ executed[i] \in Cmds /\ via[executed[i]] # Nil
        /\ executed[j] \in Cmds /\ via[executed[j]] # Nil
    BY ElementOfSeq DEF OInv, DoneInOrder
  <2> QED
    BY <2>1 DEF OInv, DoneInOrder, Increasing, SentInOrder
<1> QED
  BY <1>1, OrderInvariant, TunnelInvariant, PTL

-----------------------------------------------------------------------------
(* Crashes *)

\* The CRASH frames in flight to the API: places and connections.
Flying == {p \in Nat \X Conns : /\ p[1] \in 1..Len(up[p[2]])
                                /\ up[p[2]][p[1]] = Crash}

\* What is counted, still to be sent and in flight never exceeds what crashed.
CrashInv ==
  /\ crashed \in 0..MaxCrashes
  /\ crashes \in Nat /\ owed \in Nat
  /\ IsFiniteSet(Flying)
  /\ crashes + owed + Cardinality(Flying) <= crashed

\* A frame that is sent adds at most itself.
LEMMA SendFlies ==
  ASSUME LinksOK, conn \in Conns \cup {Nil}, NEW f \in Frames, SendFrame(f)
  PROVE  /\ \E x : Flying' \subseteq Flying \cup {x}
         /\ f # Crash => Flying' \subseteq Flying
<1>1. CASE up' = up
  BY <1>1 DEF Flying
<1>2. ASSUME NEW k \in Conns, up' = [up EXCEPT ![k] = Append(up[k], f)]
      PROVE  /\ Flying' \subseteq Flying \cup {<<Len(up[k]) + 1, k>>}
             /\ f # Crash => Flying' \subseteq Flying
  <2>1. up[k] \in Seq(Frames)
    BY DEF LinksOK
  <2>2. /\ Len(Append(up[k], f)) = Len(up[k]) + 1 /\ Len(up[k]) \in Nat
        /\ \A i \in 1..Len(up[k]) : Append(up[k], f)[i] = up[k][i]
        /\ Append(up[k], f)[Len(up[k]) + 1] = f
    BY <2>1, Appended, LenProperties
  <2>3. \A j \in Conns : up'[j] = IF j = k THEN Append(up[k], f) ELSE up[j]
    BY <1>2 DEF LinksOK
  <2> SUFFICES ASSUME NEW p \in Flying'
               PROVE  p \in Flying \/ (p = <<Len(up[k]) + 1, k>> /\ f = Crash)
    OBVIOUS
  <2>4. /\ p \in Nat \X Conns /\ p[1] \in 1..Len(up'[p[2]]) /\ up'[p[2]][p[1]] = Crash
    BY DEF Flying
  <2>5. CASE p[2] # k
    BY <2>3, <2>4, <2>5 DEF Flying
  <2>6. CASE p[2] = k /\ p[1] \in 1..Len(up[k])
    BY <2>2, <2>3, <2>4, <2>6 DEF Flying
  <2>7. CASE p[2] = k /\ p[1] = Len(up[k]) + 1
    <3>1. up'[k][Len(up[k]) + 1] = f
      BY <2>2, <2>3
    <3>2. f = Crash
      BY <2>4, <2>7, <3>1
    <3>3. p = <<p[1], p[2]>>
      BY <2>4
    <3> QED
      BY <2>7, <3>2, <3>3
  <2>8. p[2] = k => p[1] \in 1..Len(up[k]) \/ p[1] = Len(up[k]) + 1
    <3>1. p[2] = k => Len(up'[p[2]]) = Len(up[k]) + 1
      BY <2>2, <2>3
    <3> QED
      BY <2>2, <2>4, <3>1
  <2> QED
    BY <2>5, <2>6, <2>7, <2>8
<1> QED
  BY <1>1, <1>2, SendAppends

\* A frame that is handled moves the others of its connection up by one.
LEMMA ProcessLands ==
  ASSUME LinksOK, IsFiniteSet(Flying), NEW k \in Conns, ProcessFrame(k)
  PROVE  /\ IsFiniteSet(Flying')
         /\ Cardinality(Flying') <= Cardinality(Flying)
         /\ Head(up[k]) = Crash => Cardinality(Flying') <= Cardinality(Flying) - 1
<1>1. Head(up[k]) = up[k][1] /\ Len(up[k]) \in Nat \ {0}
  BY ProcessTakes
<1>2. PICK t \in Seq(Frames) :
        /\ Len(t) = Len(up[k]) - 1
        /\ \A m \in 1..Len(t) : t[m] = up[k][m + 1]
        /\ up' = [up EXCEPT ![k] = t]
  BY ProcessTakes
<1>3. \A j \in Conns : up'[j] = IF j = k THEN t ELSE up[j]
  BY <1>2 DEF LinksOK
<1> DEFINE first == <<1, k>>
           rest == Flying \ {first}
           Place(p) == IF p[2] = k THEN <<p[1] + 1, k>> ELSE p
           move == [p \in Flying' |-> Place(p)]
<1>4. move \in [Flying' -> rest]
  <2> SUFFICES ASSUME NEW p \in Flying' PROVE Place(p) \in rest
    OBVIOUS
  <2>1. p \in Nat \X Conns /\ p[1] \in 1..Len(up'[p[2]]) /\ up'[p[2]][p[1]] = Crash
    BY DEF Flying
  <2>2. CASE p[2] # k
    BY <1>3, <2>1, <2>2 DEF Flying
  <2>3. CASE p[2] = k
    <3>1. p[1] \in 1..Len(t) /\ t[p[1]] = Crash
      BY <1>3, <2>1, <2>3
    <3>2. p[1] + 1 \in 1..Len(up[k]) /\ up[k][p[1] + 1] = Crash /\ p[1] + 1 # 1
      BY <1>1, <1>2, <3>1
    <3>3. Place(p) = <<p[1] + 1, k>> /\ p[1] + 1 \in Nat
      BY <2>1, <2>3
    <3> QED
      BY <3>2, <3>3 DEF Flying
  <2> QED
    BY <2>2, <2>3
<1>5. \A p, q \in Flying' : move[p] = move[q] => p = q
  <2> SUFFICES ASSUME NEW p \in Flying', NEW q \in Flying', Place(p) = Place(q)
               PROVE  p = q
    OBVIOUS
  <2>1. p \in Nat \X Conns /\ q \in Nat \X Conns
    BY DEF Flying
  <2> QED
    BY <2>1
<1> HIDE DEF move, rest
<1>6. move \in Injection(Flying', rest)
  BY <1>4, <1>5, Fun_IsInj
<1>7. /\ IsFiniteSet(rest)
      /\ Cardinality(rest) = IF first \in Flying THEN Cardinality(Flying) - 1
                             ELSE Cardinality(Flying)
  BY FS_RemoveElement DEF rest
<1>8. IsFiniteSet(Flying') /\ Cardinality(Flying') <= Cardinality(rest)
  BY <1>6, <1>7, FS_Injection
<1>9. Head(up[k]) = Crash => first \in Flying
  BY <1>1 DEF Flying
<1>10. Cardinality(Flying) \in Nat /\ Cardinality(Flying') \in Nat
  BY <1>8, FS_CardinalityType
<1> QED
  BY <1>7, <1>8, <1>9, <1>10

\* Every step keeps crashes counted once.
LEMMA CrashStep == IInv /\ CrashInv /\ [Next]_vars => CrashInv'
<1> SUFFICES ASSUME IInv, CrashInv, [Next]_vars PROVE CrashInv'
  OBVIOUS
<1>0. LinksOK /\ AgentOK /\ Cardinality(Flying) \in Nat
  BY FS_CardinalityType DEF IInv, Types, CrashInv
<1> USE TunnelAssumption
<1>1. ASSUME Flying' \subseteq Flying
      PROVE  /\ IsFiniteSet(Flying') /\ Cardinality(Flying') \in Nat
             /\ Cardinality(Flying') <= Cardinality(Flying)
  BY <1>1, FS_Subset, FS_CardinalityType DEF CrashInv
<1>2. ASSUME Flying' \subseteq Flying, UNCHANGED <<crashed, crashes, owed>> PROVE CrashInv'
  BY <1>0, <1>1, <1>2 DEF CrashInv
<1>3. CASE UNCHANGED <<up, crashed, crashes, owed>>
  BY <1>2, <1>3 DEF Flying
<1>4. ASSUME NEW g, ProcessExits(g) PROVE CrashInv'
  <2>1. Flying' = Flying /\ crashes' = crashes
    BY <1>4 DEF ProcessExits, links, record, Flying
  <2>2. CASE WasIntentional(g)
    BY <1>2, <1>4, <2>1, <2>2 DEF ProcessExits
  <2>3. CASE ~WasIntentional(g)
    <3>1. crashed < MaxCrashes /\ crashed' = crashed + 1 /\ owed' = owed + 1
      BY <1>4, <2>3 DEF ProcessExits
    <3> QED
      BY <1>0, <2>1, <3>1 DEF CrashInv
  <2> QED
    BY <2>2, <2>3
<1>5. CASE OnProcessExit
  <2>1. SendFrame(Crash) /\ Crash \in Frames
    BY <1>5 DEF OnProcessExit, Frames
  <2>2. PICK x : Flying' \subseteq Flying \cup {x}
    BY <1>0, <2>1, SendFlies DEF AgentOK
  <2>3. /\ IsFiniteSet(Flying \cup {x}) /\ Cardinality(Flying \cup {x}) \in Nat
        /\ Cardinality(Flying \cup {x}) <= Cardinality(Flying) + 1
    <3>1. IsFiniteSet(Flying)
      BY DEF CrashInv
    <3>2. /\ IsFiniteSet(Flying \cup {x})
          /\ Cardinality(Flying \cup {x}) = IF x \in Flying THEN Cardinality(Flying)
                                            ELSE Cardinality(Flying) + 1
      BY <3>1, FS_AddElement
    <3> QED
      BY <1>0, <3>2
  <2>4. /\ IsFiniteSet(Flying') /\ Cardinality(Flying') \in Nat
        /\ Cardinality(Flying') <= Cardinality(Flying) + 1
    BY <1>0, <2>2, <2>3, FS_Subset, FS_CardinalityType
  <2>5. owed > 0 /\ owed' = owed - 1 /\ UNCHANGED <<crashed, crashes>>
    BY <1>5 DEF OnProcessExit, record
  <2> QED
    BY <1>0, <2>4, <2>5 DEF CrashInv
<1>6. CASE Respond
  <2>1. working \in Cmds /\ SendFrame(Resp(working))
    BY <1>0, <1>6 DEF Respond, AgentOK
  <2>2. Resp(working) \in Frames /\ Resp(working) # Crash
    <3>1. Resp(working).type # Crash.type
      BY DEF Resp, Crash
    <3> QED
      BY <2>1, <3>1 DEF Frames
  <2>3. Flying' \subseteq Flying
    BY <1>0, <2>1, <2>2, SendFlies DEF AgentOK
  <2> QED
    BY <1>2, <1>6, <2>3 DEF Respond, server, record
<1>7. ASSUME NEW k \in Conns, OnClose(k) PROVE CrashInv'
  <2>1. \A j \in Conns : up'[j] = up[j] \/ up'[j] = <<>>
    BY <1>0, <1>7 DEF OnClose, LinksOK
  <2>2. Flying' \subseteq Flying
    BY <2>1 DEF Flying
  <2> QED
    BY <1>2, <1>7, <2>2 DEF OnClose, agent, server, record
<1>8. ASSUME NEW k \in Conns, ProcessFrame(k) PROVE CrashInv'
  <2>1. /\ IsFiniteSet(Flying')
        /\ Cardinality(Flying') <= Cardinality(Flying)
        /\ Head(up[k]) = Crash => Cardinality(Flying') <= Cardinality(Flying) - 1
    BY <1>0, <1>8, ProcessLands DEF CrashInv
  <2>2. Cardinality(Flying') \in Nat
    BY <2>1, FS_CardinalityType
  <2>3. UNCHANGED <<crashed, owed>>
    BY <1>8 DEF ProcessFrame, agent, server
  <2>4. crashes' \in {crashes, crashes + 1} /\ (Head(up[k]) # Crash => crashes' = crashes)
    <3>1. Head(up[k]) \in Frames
      BY <1>0, <1>8, ProcessTakes
    <3>2. Head(up[k]) # Crash => Head(up[k]).type # "CRASH"
      BY <3>1 DEF Frames, Resp
    <3> QED
      BY <1>8, <3>2 DEF ProcessFrame, OnCrash, OnResponse
  <2> QED
    BY <1>0, <2>1, <2>2, <2>3, <2>4 DEF CrashInv
<1> QED
  BY <1>3, <1>4, <1>5, <1>6, <1>7, <1>8
     DEF Next, Agent, Gateway, Routes, vars, links, agent, server, record, Dial,
         DialReturns, DialFails, ReadFails, Receive, HandleCommand, CutLink,
         HandleConnection, SocketCloses, SendCommand, RunLocally, CommandTimeout, RouteGoesOn,
         DeleteServer

\* CrashInv holds in every reachable state.
LEMMA CrashInvariant == Spec => []CrashInv
<1>1. Init => CrashInv
  <2> SUFFICES ASSUME Init PROVE CrashInv
    OBVIOUS
  <2>1. Flying = {}
    BY DEF Init, Flying
  <2> QED
    BY <2>1, FS_EmptySet, TunnelAssumption DEF Init, CrashInv
<1> QED
  BY <1>1, CrashStep, TunnelInvariant, PTL DEF Spec

\* However crashes, answers and reconnects interleave, a crash is counted at most
\* once, and never one that did not happen.
THEOREM CrashesCountOnce == Spec => []CrashCountedOnce
<1>1. CrashInv => CrashCountedOnce
  <2> SUFFICES ASSUME CrashInv PROVE CrashCountedOnce
    OBVIOUS
  <2> DEFINE InFlight(k) == {i \in 1..Len(up[k]) : up[k][i] = Crash}
             flying == UNION {InFlight(k) \X {k} : k \in Conns}
  <2>1. flying \subseteq Flying
    BY DEF Flying
  <2>2. IsFiniteSet(Flying) /\ Cardinality(Flying) \in Nat
    BY FS_CardinalityType DEF CrashInv
  <2> HIDE DEF flying
  <2>3. Cardinality(flying) \in Nat /\ Cardinality(flying) <= Cardinality(Flying)
    BY <2>1, <2>2, FS_Subset, FS_CardinalityType
  <2>4. crashes + owed + Cardinality(flying) <= crashed
    BY <2>2, <2>3, TunnelAssumption DEF CrashInv
  <2> QED
    BY <2>4 DEF CrashCountedOnce, flying
<1> QED
  BY <1>1, CrashInvariant, PTL

\* In every reachable state an ONLINE server has the process of its last Start.
LEMMA SoundInvariant == Spec => []Sound(bds, procs)
<1>1. Init => Sound(bds, procs)
  BY DEF Init, Sound, Processes, Nil
<1>2. IInv /\ Sound(bds, procs) /\ [Next]_vars => Sound(bds, procs)'
  <2> SUFFICES ASSUME IInv, Sound(bds, procs), [Next]_vars PROVE Sound(bds', procs')
    OBVIOUS
  <2>1. CASE HandleCommand
    <3>1. kind[working] \in AllKinds
      BY <2>1 DEF IInv, Types, AgentOK, CallsOK, HandleCommand
    <3> QED
      BY <2>1, <3>1, OutcomeSound DEF HandleCommand
  <2>2. ASSUME NEW g, ProcessExits(g) PROVE Sound(bds', procs')
    BY <2>2, ExitSound
  <2>3. CASE UNCHANGED <<bds, procs>>
    BY <2>3
  <2> QED
    BY <2>1, <2>2, <2>3
       DEF Next, Agent, Gateway, Routes, vars, agent, server, Dial, DialReturns, DialFails,
           ReadFails, Receive, Respond, OnProcessExit, CutLink, HandleConnection,
           SocketCloses, OnClose, ProcessFrame, SendCommand, RunLocally,
           CommandTimeout, RouteGoesOn, DeleteServer
<1> QED
  BY <1>1, <1>2, TunnelInvariant, PTL DEF Spec

\* Whatever happens to the connections, all state of tunnel and routes keeps its
\* type; the counts stay within what crashed.
THEOREM TunnelTypes == Spec => []TypeOK
<1> DEFINE Rest == deleted \in BOOLEAN /\ disturbed \in BOOLEAN
<1>1. Init => Rest
  BY DEF Init
<1>2. Rest /\ [Next]_vars => Rest'
  <2> SUFFICES ASSUME Rest, [Next]_vars PROVE Rest'
    OBVIOUS
  <2>1. deleted' \in BOOLEAN
    BY DEF Next, Agent, Gateway, Routes, vars, record, Dial, DialReturns, DialFails,
           ReadFails, Receive, HandleCommand, Respond, ProcessExits, OnProcessExit,
           CutLink, HandleConnection, SocketCloses, OnClose, ProcessFrame, SendCommand,
           RunLocally, CommandTimeout, RouteGoesOn, DeleteServer
  <2>2. disturbed' \in BOOLEAN
    BY DEF Next, Agent, Gateway, Routes, vars, Dial, DialReturns, DialFails, ReadFails,
           Receive, HandleCommand, Respond, ProcessExits, OnProcessExit, CutLink,
           HandleConnection, SocketCloses, OnClose, ProcessFrame, OnCrash, OnResponse,
           SendCommand, RunLocally, CommandTimeout, RouteGoesOn, DeleteServer
  <2> QED
    BY <2>1, <2>2
<1>3. IInv /\ OInv /\ CrashInv /\ Sound(bds, procs) /\ Rest => TypeOK
  <2> SUFFICES ASSUME IInv, OInv, CrashInv, Sound(bds, procs), Rest PROVE TypeOK
    OBVIOUS
  <2>1. Cardinality(Flying) \in Nat
    BY FS_CardinalityType DEF CrashInv
  <2>2. owed \in 0..MaxCrashes /\ crashes \in 0..MaxCrashes
    BY <2>1, TunnelAssumption DEF CrashInv
  <2> QED
    BY <2>2 DEF IInv, OInv, CrashInv, DoneInOrder, Types, LinksOK, AgentOK, GatewayOK,
                CallsOK, Sound, TypeOK
<1> QED
  BY <1>1, <1>2, <1>3, TunnelInvariant, OrderInvariant, CrashInvariant, SoundInvariant,
     PTL DEF Spec

-----------------------------------------------------------------------------
(* Record and agent *)

Executed == {c \in Cmds : result[c] # "none"}
Done == {c \in Cmds : promise[c] = "ok"}
Popped == {c \in Done : \A i \in 1..Len(ready) : ready[i] # c}

\* Some START or RESTART among these commands was not followed by a STOP.
Lit(S, what) ==
  \E c \in S : what[c] \in {"START", "RESTART"} /\ \A d \in S : d > c => what[d] # "STOP"

\* What was executed is in the history, the command being executed last of all,
\* and its answer is yet to be sent.
LastWork ==
  /\ \A c \in Executed : \E i \in 1..Len(executed) : executed[i] = c
  /\ working # Nil =>
       /\ working \in Executed => \A c \in Executed : c <= working
       /\ promise[working] \notin Results
       /\ \A k \in Conns : \A m \in 1..Len(up[k]) : up[k][m] # Resp(working)

\* Answers travel in the order of their commands, on connections the API has.
UpInOrder ==
  /\ \A k \in Conns : \A i, j \in 1..Len(up[k]) :
       i < j /\ up[k][i].type = "CMD_RESP" /\ up[k][j].type = "CMD_RESP" =>
         up[k][i].id < up[k][j].id
  /\ \A k \in Conns : ws[k] = "none" => up[k] = <<>>
  /\ conn # Nil => ws[conn] # "none"

\* Undisturbed, all outcomes are good and settled by answers, ...
AllGood ==
  \A c \in Cmds : /\ promise[c] \in {"none", "waiting", "ok"}
                  /\ promise[c] = "ok" => via[c] # Nil
                  /\ result[c] \in {"none", "ok"}

\* ... the routes go on in the order of their commands, ...
RoutesInOrder ==
  /\ Increasing(ready)
  /\ \A i \in 1..Len(ready) : ready[i] \in Done /\ \A c \in Popped : c < ready[i]
  /\ session # Nil =>
       \A m \in 1..Len(up[session]) : up[session][m].type = "CMD_RESP" =>
         \A c \in Done : c < up[session][m].id

\* ... and agent and record are what the executed commands and those whose
\* routes have gone on make of them.
AgreeInv ==
  ~disturbed =>
    /\ AllGood
    /\ RoutesInOrder
    /\ bds = "ONLINE" <=> Lit(Executed, kind)
    /\ status = "ONLINE" <=> Lit(Popped, kind)

AInv == LastWork /\ UpInOrder /\ AgreeInv

\* A command after all others decides alone, unless it is neither kind.
LEMMA LitAdds ==
  ASSUME NEW S \in SUBSET Cmds, NEW c \in Cmds, NEW what, \A d \in S : d < c
  PROVE  Lit(S \cup {c}, what) <=> \/ what[c] \in {"START", "RESTART"}
                                   \/ what[c] # "STOP" /\ Lit(S, what)
BY TunnelAssumption DEF Lit, Cmds

\* Only the commands among them matter.
LEMMA LitSame ==
  ASSUME NEW S, NEW what, NEW other, \A d \in S : what[d] = other[d]
  PROVE  Lit(S, what) <=> Lit(S, other)
BY DEF Lit

\* What was executed was sent; what has an answer was executed.
LEMMA DoneIsExecuted ==
  ASSUME IInv, AllGood
  PROVE  /\ \A c \in Executed : promise[c] # "none"
         /\ Done \subseteq Executed
<1>1. CallInv
  BY DEF IInv
<1>2. \A c \in Executed : promise[c] # "none"
  BY <1>1 DEF CallInv, Executed
<1>3. \A c \in Done : result[c] = "ok"
  BY <1>1 DEF CallInv, Done, AllGood, Results
<1> QED
  BY <1>2, <1>3 DEF Done, Executed

\* What one step does to the frames in flight to the API on one connection.
LEMMA UpMoves ==
  ASSUME IInv, [Next]_vars, NEW k \in Conns
  PROVE  \/ up'[k] \in {up[k], <<>>}
         \/ /\ ProcessFrame(k) /\ Len(up[k]) \in Nat \ {0}
            /\ Len(up'[k]) = Len(up[k]) - 1
            /\ \A m \in 1..Len(up'[k]) : up'[k][m] = up[k][m + 1]
         \/ /\ conn = k
            /\ \/ Respond /\ working \in Cmds /\ result[working] # "none"
                  /\ up'[k] = Append(up[k], Resp(working))
               \/ OnProcessExit /\ up'[k] = Append(up[k], Crash)
<1>0. LinksOK /\ AgentOK
  BY DEF IInv, Types
<1>1. ASSUME NEW f, SendFrame(f)
      PROVE  up'[k] = up[k] \/ (conn = k /\ up'[k] = Append(up[k], f))
  BY <1>0, <1>1 DEF SendFrame, LinksOK, AgentOK
<1>2. CASE Respond
  BY <1>0, <1>1, <1>2 DEF Respond, AgentOK
<1>3. CASE OnProcessExit
  BY <1>1, <1>3 DEF OnProcessExit
<1>4. ASSUME NEW j \in Conns, ProcessFrame(j)
      PROVE  \/ up'[k] = up[k]
             \/ /\ j = k /\ Len(up[k]) \in Nat \ {0}
                /\ Len(up'[k]) = Len(up[k]) - 1
                /\ \A m \in 1..Len(up'[k]) : up'[k][m] = up[k][m + 1]
  <2>1. Len(up[j]) \in Nat \ {0}
    BY <1>0, <1>4, ProcessTakes
  <2>2. PICK t \in Seq(Frames) :
          /\ Len(t) = Len(up[j]) - 1
          /\ \A m \in 1..Len(t) : t[m] = up[j][m + 1]
          /\ up' = [up EXCEPT ![j] = t]
    BY <1>0, <1>4, ProcessTakes
  <2> QED
    BY <1>0, <2>1, <2>2 DEF LinksOK
<1>5. ASSUME NEW j \in Conns, OnClose(j) PROVE up'[k] \in {up[k], <<>>}
  BY <1>0, <1>5 DEF OnClose, LinksOK
<1> QED
  BY <1>2, <1>3, <1>4, <1>5
     DEF Next, Agent, Gateway, Routes, vars, links, Dial, DialReturns, DialFails,
         ReadFails, Receive, HandleCommand, ProcessExits, CutLink, HandleConnection,
         SocketCloses, SendCommand, RunLocally, CommandTimeout, RouteGoesOn,
         DeleteServer

\* A frame that answers is the answer to its id, which was executed.
LEMMA AnswersExecuted ==
  ASSUME IInv, NEW k \in Conns, NEW m \in 1..Len(up[k]), up[k][m].type = "CMD_RESP"
  PROVE  /\ up[k][m].id \in Executed
         /\ up[k][m] = Resp(up[k][m].id)
<1>1. up[k] \in Seq(Frames) /\ Answered(up[k], result)
  BY DEF IInv, Types, LinksOK, FramesInv
<1>2. PICK c \in Cmds : up[k][m] = Resp(c)
  BY <1>1, ElementOfSeq DEF Frames, Crash
<1>3. up[k][m].id = c
  BY <1>2 DEF Resp
<1> QED
  BY <1>1, <1>2, <1>3 DEF Answered, Executed

\* No answer to the command being executed, or to a later one, is on its way.
LEMMA AnswersAreOlder ==
  ASSUME IInv, LastWork, working \in Executed,
         NEW k \in Conns, NEW m \in 1..Len(up[k]), up[k][m].type = "CMD_RESP"
  PROVE  up[k][m].id < working
<1>1. up[k][m].id \in Executed /\ up[k][m] = Resp(up[k][m].id)
  BY AnswersExecuted
<1>2. working # Nil
  BY TunnelAssumption DEF Executed, Cmds, Nil
<1>3. up[k][m].id <= working /\ up[k][m].id # working
  BY <1>1, <1>2 DEF LastWork
<1> QED
  BY <1>1, <1>3, TunnelAssumption DEF Executed, Cmds

\* Every step keeps the command being executed the last one.
LEMMA LastWorkStep == IInv /\ OInv /\ LastWork /\ [Next]_vars => LastWork'
<1> SUFFICES ASSUME IInv, OInv, LastWork, [Next]_vars PROVE LastWork'
  OBVIOUS
<1>0. /\ LinksOK /\ AgentOK /\ GatewayOK /\ CallsOK /\ CallInv /\ FramesInv
      /\ StillAhead /\ DoneInOrder
  BY DEF IInv, Types, OInv
<1> USE TunnelAssumption DEF Nil
<1>1. CASE HandleCommand
  <2>1. /\ working \in Cmds /\ result[working] = "none" /\ working' = working
        /\ executed' = Append(executed, working) /\ UNCHANGED <<promise, up>>
    BY <1>0, <1>1 DEF HandleCommand, AgentOK, links, calls
  <2>2. Executed' \subseteq Executed \cup {working}
    BY <1>0, <1>1 DEF HandleCommand, AgentOK, Executed
  <2>3. /\ Len(executed') = Len(executed) + 1 /\ Len(executed) \in Nat
        /\ \A i \in 1..Len(executed) : executed'[i] = executed[i]
        /\ executed'[Len(executed) + 1] = working
    BY <1>0, <2>1, Appended, LenProperties DEF DoneInOrder
  <2>4. \A c \in Executed' : \E i \in 1..Len(executed') : executed'[i] = c
    <3> SUFFICES ASSUME NEW c \in Executed' PROVE \E i \in 1..Len(executed') : executed'[i] = c
      OBVIOUS
    <3>1. CASE c = working
      BY <2>3, <3>1
    <3>2. CASE c \in Executed
      BY <2>3, <3>2 DEF LastWork
    <3> QED
      BY <2>2, <3>1, <3>2
  <2>5. \A c \in Executed : c <= working
    <3> SUFFICES ASSUME NEW c \in Executed PROVE c <= working
      OBVIOUS
    <3>1. PICK i \in 1..Len(executed) : executed[i] = c
      BY DEF LastWork
    <3>2. AllBelow(executed, working)
      BY <1>0, <1>1, <2>1 DEF DoneInOrder, HandleCommand
    <3> QED
      BY <2>1, <3>1, <3>2 DEF AllBelow, Executed, Cmds
  <2> QED
    BY <1>1, <2>1, <2>2, <2>4, <2>5 DEF LastWork, HandleCommand, Cmds
<1>2. ASSUME NEW j \in Conns, Receive(j) PROVE LastWork'
  <2>1. /\ Len(down[j]) \in Nat \ {0} /\ working' = down[j][1] /\ working' \in Cmds
    BY <1>0, <1>2, ReceiveTakes
  <2>2. conn = j /\ j # Nil /\ UNCHANGED <<executed, result, promise, up>>
    BY <1>2 DEF Receive, Conns, calls
  <2>3. AllBelow(executed, working')
    BY <1>0, <2>1, <2>2 DEF StillAhead
  <2>4. working' \notin Executed
    BY <2>1, <2>3 DEF LastWork, AllBelow, Cmds
  <2>5. via[working'] # Nil
    BY <1>0, <2>1, <2>2 DEF FramesInv, SentOn
  <2>6. promise[working'] \notin Results
    BY <1>0, <2>1, <2>4, <2>5 DEF CallInv, Executed, Results
  <2>7. \A k \in Conns : \A m \in 1..Len(up[k]) : up[k][m] # Resp(working')
    BY <2>4, AnswersExecuted DEF Resp
  <2>8. Executed' = Executed
    BY <2>2 DEF Executed
  <2> QED
    BY <2>2, <2>4, <2>6, <2>7, <2>8 DEF LastWork
<1>3. CASE UNCHANGED <<executed, result>> /\ working' \in {working, Nil}
  <2>1. Executed' = Executed
    BY <1>3 DEF Executed
  <2>2. ASSUME working' # Nil
        PROVE  /\ promise'[working'] \notin Results
               /\ \A k \in Conns : \A m \in 1..Len(up'[k]) : up'[k][m] # Resp(working')
    <3>1. /\ working' = working /\ working \in Cmds /\ via[working] # Nil
          /\ promise[working] \notin Results /\ promise[working] # "none"
          /\ \A k \in Conns : \A m \in 1..Len(up[k]) : up[k][m] # Resp(working)
      BY <1>0, <1>3, <2>2 DEF AgentOK, FramesInv, LastWork, CallInv
    <3>2. promise'[working] \notin Results
      <4>1. ASSUME NEW c \in Cmds, Executes(c) \/ Sends(c) \/ Diverts(c) \/ GivesUp(c)
            PROVE  promise'[working] \notin Results
        <5>1. Executes(c) => promise' = promise
          BY DEF Executes
        <5>2. Sends(c) => promise' = [promise EXCEPT ![c] = "waiting"]
          BY DEF Sends
        <5>3. Diverts(c) => c # working /\ \E r \in Results : promise' = [promise EXCEPT ![c] = r]
          BY <3>1 DEF Diverts
        <5>4. GivesUp(c) => promise' = [promise EXCEPT ![c] = "rejected"]
          BY DEF GivesUp
        <5> QED
          BY <1>0, <3>1, <4>1, <5>1, <5>2, <5>3, <5>4 DEF CallsOK, Results
      <4>2. ASSUME NEW k \in Conns, ProcessFrame(k) PROVE promise'[working] = promise[working]
        <5>1. Head(up[k]) = up[k][1] /\ 1 \in 1..Len(up[k])
          BY <1>0, <4>2, ProcessTakes
        <5>2. \A c \in Cmds : Head(up[k]) = Resp(c) => c # working
          BY <3>1, <5>1
        <5> QED
          BY <1>0, <3>1, <4>2, <5>2, ProcessSettles DEF IInv, CallsOK
      <4>3. ASSUME NEW c \in Cmds, NEW k \in Conns, Answers(k, c),
                   ~(\E j \in Conns : ProcessFrame(j))
            PROVE  FALSE
        <5>1. promise[c] = "waiting" /\ promise'[c] \notin {"waiting", "rejected"}
          BY <1>0, <4>3 DEF IInv, PendingInv, Answers, CallsOK, AgentOK, Results
        <5>2. \A d \in Cmds : promise[d] = "waiting" => promise'[d] \in {"waiting", "rejected"}
          BY <1>0, <4>3
             DEF Next, Agent, Gateway, Routes, vars, calls, Dial, DialReturns, DialFails,
                 ReadFails, Receive, HandleCommand, Respond, ProcessExits, CutLink,
                 OnProcessExit, HandleConnection, SocketCloses, OnClose, RouteGoesOn,
                 DeleteServer, SendCommand, RunLocally, CommandTimeout, NextCmd, CallsOK
        <5> QED
          BY <5>1, <5>2
      <4> QED
        BY <3>1, <4>1, <4>2, <4>3, CallMoves
    <3>3. ASSUME NEW k \in Conns, NEW m \in 1..Len(up'[k]) PROVE up'[k][m] # Resp(working)
      <4>1. CASE up'[k] \in {up[k], <<>>}
        BY <3>1, <4>1
      <4>2. CASE /\ Len(up[k]) \in Nat \ {0} /\ Len(up'[k]) = Len(up[k]) - 1
                 /\ \A n \in 1..Len(up'[k]) : up'[k][n] = up[k][n + 1]
        <5>1. m + 1 \in 1..Len(up[k])
          BY <4>2
        <5> QED
          BY <3>1, <4>2, <5>1
      <4>3. CASE up'[k] = Append(up[k], Crash)
        <5>1. up[k] \in Seq(Frames) /\ Crash \in Frames /\ Crash # Resp(working)
          <6>1. Crash.type # Resp(working).type
            BY DEF Crash, Resp
          <6> QED
            BY <1>0, <6>1 DEF LinksOK, Frames
        <5> QED
          BY <3>1, <4>3, <5>1, Appended, LenProperties
      <4>4. ~Respond
        BY <2>2 DEF Respond
      <4> QED
        BY <4>1, <4>2, <4>3, <4>4, UpMoves
    <3> QED
      BY <3>1, <3>2, <3>3
  <2> QED
    BY <1>3, <2>1, <2>2 DEF LastWork
<1> QED
  BY <1>1, <1>2, <1>3, WorkMoves

\* Every step keeps answers in order.
LEMMA UpInOrderStep == IInv /\ LastWork /\ UpInOrder /\ [Next]_vars => UpInOrder'
<1> SUFFICES ASSUME IInv, LastWork, UpInOrder, [Next]_vars PROVE UpInOrder'
  OBVIOUS
<1>0. LinksOK /\ AgentOK /\ GatewayOK
  BY DEF IInv, Types
<1> USE TunnelAssumption DEF Nil
<1>1. ASSUME NEW k \in Conns
      PROVE  /\ \A i, j \in 1..Len(up'[k]) :
                  i < j /\ up'[k][i].type = "CMD_RESP" /\ up'[k][j].type = "CMD_RESP" =>
                    up'[k][i].id < up'[k][j].id
             /\ ws'[k] = "none" => up'[k] = <<>>
  <2>1. up[k] \in Seq(Frames) /\ Len(up[k]) \in Nat
    BY <1>0, LenProperties DEF LinksOK
  <2>2. ws'[k] = "none" => ws[k] = "none" /\ up[k] = <<>>
    BY SocketsStay DEF UpInOrder
  <2>3. CASE up'[k] \in {up[k], <<>>}
    BY <2>2, <2>3 DEF UpInOrder
  <2>4. CASE /\ ProcessFrame(k) /\ Len(up[k]) \in Nat \ {0}
             /\ Len(up'[k]) = Len(up[k]) - 1
             /\ \A m \in 1..Len(up'[k]) : up'[k][m] = up[k][m + 1]
    <3>1. \A m \in 1..Len(up'[k]) : m + 1 \in 1..Len(up[k])
      BY <2>4
    <3>2. \A i, j \in 1..Len(up'[k]) : i < j => i + 1 < j + 1
      BY <2>4
    <3> QED
      BY <2>2, <2>4, <3>1, <3>2 DEF UpInOrder, ProcessFrame
  <2>5. ASSUME NEW f \in Frames, conn = k, up'[k] = Append(up[k], f),
               f.type = "CMD_RESP" => \A m \in 1..Len(up[k]) :
                                        up[k][m].type = "CMD_RESP" => up[k][m].id < f.id
        PROVE  /\ \A i, j \in 1..Len(up'[k]) :
                    i < j /\ up'[k][i].type = "CMD_RESP" /\ up'[k][j].type = "CMD_RESP" =>
                      up'[k][i].id < up'[k][j].id
               /\ ws'[k] # "none"
    <3>1. /\ Len(up'[k]) = Len(up[k]) + 1
          /\ \A i \in 1..Len(up[k]) : up'[k][i] = up[k][i]
          /\ up'[k][Len(up[k]) + 1] = f
      BY <2>1, <2>5, Appended
    <3>2. ws'[k] # "none"
      BY <2>5, SocketsStay DEF UpInOrder, Conns
    <3>3. \A i, j \in 1..Len(up'[k]) : i < j => /\ i \in 1..Len(up[k])
                                                /\ j \in 1..Len(up[k]) \/ j = Len(up[k]) + 1
      BY <2>1, <3>1
    <3> QED
      BY <2>5, <3>1, <3>2, <3>3 DEF UpInOrder
  <2>6. CASE /\ conn = k /\ Respond /\ working \in Cmds /\ result[working] # "none"
             /\ up'[k] = Append(up[k], Resp(working))
    <3>1. working \in Executed /\ Resp(working) \in Frames /\ Resp(working).id = working
      BY <2>6 DEF Executed, Frames, Resp
    <3> QED
      BY <2>5, <2>6, <3>1, AnswersAreOlder
  <2>7. CASE conn = k /\ up'[k] = Append(up[k], Crash)
    <3>1. Crash \in Frames /\ Crash.type # "CMD_RESP"
      BY DEF Frames, Crash
    <3> QED
      BY <2>5, <2>7, <3>1
  <2> QED
    BY <2>3, <2>4, <2>5, <2>6, <2>7, UpMoves
<1>2. conn' # Nil => ws'[conn'] # "none"
  <2>1. conn' \in {conn, Nil} \/ \E k \in Conns : conn' = k /\ ws[k] # "none"
    BY DEF Next, Agent, Gateway, Routes, vars, agent, Dial, DialReturns, DialFails,
           ReadFails, Receive, HandleCommand, Respond, ProcessExits, OnProcessExit,
           CutLink, HandleConnection, SocketCloses, OnClose, ProcessFrame, SendCommand,
           RunLocally, CommandTimeout, RouteGoesOn, DeleteServer
  <2> QED
    BY <1>0, <2>1, SocketsStay DEF UpInOrder, AgentOK
<1> QED
  BY <1>1, <1>2 DEF UpInOrder

\* What is left of the invariant once it is known that nothing was disturbed.
Agreement ==
  /\ AllGood
  /\ RoutesInOrder
  /\ bds = "ONLINE" <=> Lit(Executed, kind)
  /\ status = "ONLINE" <=> Lit(Popped, kind)

\* A command executed undisturbed succeeds and moves the agent's server.
LEMMA AgreeExecutes ==
  ASSUME IInv, OInv, LastWork, Agreement, HandleCommand, ~disturbed'
  PROVE  Agreement'
<1>0. AgentOK /\ CallsOK /\ DoneInOrder
  BY DEF IInv, Types, OInv
<1>1. /\ working \in Cmds /\ result[working] = "none"
      /\ UNCHANGED <<up, promise, ready, via, kind, session, status>>
  BY <1>0 DEF HandleCommand, AgentOK, links, calls, gateway, record
<1>2. PICK o \in Outcomes(kind[working]) :
        /\ bds' = o[1]
        /\ result' = [result EXCEPT ![working] = o[3]]
        /\ disturbed' = (disturbed \/ o[3] = "failed")
  BY DEF HandleCommand
<1>3. kind[working] \in AllKinds
  BY <1>0, <1>1 DEF CallsOK
<1>4. /\ o[3] = "ok"
      /\ o[1] = CASE kind[working] \in {"START", "RESTART"} -> "ONLINE"
                  [] kind[working] = "STOP" -> "OFFLINE"
                  [] OTHER -> bds
  <2>1. o[3] # "failed"
    BY <1>2
  <2> QED
    BY <1>3, <2>1, OutcomeAnswers DEF Results
<1>5. result' = [result EXCEPT ![working] = "ok"] /\ Executed' = Executed \cup {working}
  BY <1>0, <1>1, <1>2, <1>4 DEF AgentOK, Executed
<1>6. \A c \in Executed : c < working
  <2> SUFFICES ASSUME NEW c \in Executed PROVE c < working
    OBVIOUS
  <2>1. PICK i \in 1..Len(executed) : executed[i] = c
    BY DEF LastWork
  <2>2. AllBelow(executed, working)
    BY <1>0, <1>1 DEF DoneInOrder, HandleCommand
  <2> QED
    BY <2>1, <2>2 DEF AllBelow
<1>7. Lit(Executed', kind) <=> \/ kind[working] \in {"START", "RESTART"}
                               \/ kind[working] # "STOP" /\ Lit(Executed, kind)
  BY <1>1, <1>5, <1>6, LitAdds DEF Executed
<1>8. bds' = "ONLINE" <=> Lit(Executed', kind)
  BY <1>2, <1>4, <1>7 DEF Agreement
<1>9. AllGood'
  BY <1>0, <1>1, <1>5 DEF Agreement, AllGood, AgentOK
<1>10. Done' = Done /\ Popped' = Popped
  BY <1>1 DEF Done, Popped
<1>11. RoutesInOrder'
  BY <1>1, <1>10 DEF Agreement, RoutesInOrder
<1> QED
  BY <1>1, <1>8, <1>9, <1>10, <1>11 DEF Agreement

\* A command that is sent has neither been executed nor answered.
LEMMA AgreeSends ==
  ASSUME IInv, Agreement, NEW c \in Cmds, NEW what \in Kinds, SendCommand(c, what)
  PROVE  Agreement'
<1>0. CallsOK /\ GatewayOK
  BY DEF IInv, Types
<1>1. /\ UNCHANGED <<up, result, bds, session, ready, status>>
      /\ promise[c] = "none" /\ session \in Conns
      /\ kind' = [kind EXCEPT ![c] = what]
      /\ via' = [via EXCEPT ![c] = session]
      /\ promise' = [promise EXCEPT ![c] = "waiting"]
  BY <1>0 DEF SendCommand, NextCmd, IsNodeConnected, GatewayOK, agent, server, record
<1>2. /\ Executed' = Executed /\ Done' = Done /\ Popped' = Popped
  BY <1>0, <1>1 DEF Executed, Done, Popped, CallsOK
<1>3. c \notin Executed /\ c \notin Popped
  BY <1>1, DoneIsExecuted DEF Agreement, Popped, Done
<1>4. /\ \A d \in Executed : kind'[d] = kind[d]
      /\ \A d \in Popped : kind'[d] = kind[d]
  BY <1>0, <1>1, <1>3 DEF CallsOK, Executed, Popped, Done
<1>5. /\ Lit(Executed, kind) <=> Lit(Executed, kind')
      /\ Lit(Popped, kind) <=> Lit(Popped, kind')
  BY <1>4, LitSame
<1>6. AllGood'
  BY <1>0, <1>1, TunnelAssumption DEF Agreement, AllGood, CallsOK, Conns, Nil
<1>7. RoutesInOrder'
  BY <1>1, <1>2 DEF Agreement, RoutesInOrder
<1> QED
  BY <1>1, <1>2, <1>5, <1>6, <1>7 DEF Agreement

\* An answer on the connection the session map points to comes after all that
\* came before it.
LEMMA AgreeAnswers ==
  ASSUME IInv, UpInOrder, Agreement, NEW k \in Conns, ProcessFrame(k), ~disturbed'
  PROVE  Agreement'
<1>0. LinksOK /\ CallsOK /\ AgentOK /\ GatewayOK /\ PendingInv
  BY DEF IInv, Types
<1>1. /\ Head(up[k]) = up[k][1] /\ Head(up[k]) \in Frames /\ Len(up[k]) \in Nat \ {0}
  BY <1>0, ProcessTakes
<1>2. PICK t \in Seq(Frames) :
        /\ Len(t) = Len(up[k]) - 1
        /\ \A m \in 1..Len(t) : t[m] = up[k][m + 1]
        /\ up' = [up EXCEPT ![k] = t]
  BY <1>0, ProcessTakes
<1>3. /\ UNCHANGED <<session, kind, via, result, bds>> /\ up'[k] = t
  BY <1>0, <1>2 DEF ProcessFrame, agent, server, LinksOK
<1>4. Head(up[k]).type # "CRASH"
  BY DEF ProcessFrame, OnCrash
<1>5. PICK c \in Cmds : Head(up[k]) = Resp(c)
  BY <1>1, <1>4 DEF Frames, Crash
<1>6. k = session /\ OnResponse(k, c) /\ UNCHANGED status
  <2>1. Resp(c).id = c
    BY DEF Resp
  <2>2. OnResponse(k, c)
    BY <1>4, <1>5, <2>1 DEF ProcessFrame
  <2>3. disturbed' = (disturbed \/ k # session) /\ UNCHANGED status
    BY <2>2 DEF OnResponse
  <2> QED
    BY <2>2, <2>3
<1>7. 1 \in 1..Len(up[k]) /\ up[k][1].type = "CMD_RESP" /\ up[k][1].id = c
  BY <1>1, <1>5 DEF Resp
<1>8. \A m \in 1..Len(t) :
        /\ m + 1 \in 1..Len(up[k]) /\ t[m] = up[k][m + 1]
        /\ t[m].type = "CMD_RESP" => c < t[m].id
  <2>1. \A m \in 1..Len(t) : m + 1 \in 1..Len(up[k]) /\ 1 < m + 1
    BY <1>1, <1>2
  <2> QED
    BY <1>2, <1>7, <2>1 DEF UpInOrder
<1>9. k # Nil /\ session # Nil
  BY <1>6, TunnelAssumption DEF Conns, Nil
<1>10. \A d \in Done : d < c
  BY <1>6, <1>7, <1>9 DEF Agreement, RoutesInOrder
<1>11. Executed' = Executed
  BY <1>3 DEF Executed
<1>12. CASE c \in pending[k]
  <2>1. /\ promise' = [promise EXCEPT ![c] = result[c]] /\ ready' = Append(ready, c)
        /\ promise[c] = "waiting" /\ via[c] = k
    BY <1>0, <1>6, <1>12 DEF OnResponse, Awaited, PendingInv
  <2>2. result[c] = "ok"
    BY <1>7, AnswersExecuted DEF Agreement, AllGood, Executed
  <2>3. Done' = Done \cup {c} /\ c \notin Done
    BY <1>0, <2>1, <2>2 DEF Done, CallsOK
  <2>4. /\ Len(ready') = Len(ready) + 1 /\ Len(ready) \in Nat
        /\ \A i \in 1..Len(ready) : ready'[i] = ready[i]
        /\ ready'[Len(ready) + 1] = c
    BY <1>0, <2>1, Appended, LenProperties DEF CallsOK
  <2>5. \A i \in 1..Len(ready') : i \in 1..Len(ready) \/ i = Len(ready) + 1
    BY <2>4
  <2>6. Popped' = Popped
    <3>1. \A i \in 1..Len(ready) : ready[i] # c
      BY <2>3 DEF Agreement, RoutesInOrder
    <3>2. c \notin Popped' /\ c \notin Popped
      BY <2>3, <2>4 DEF Popped
    <3>3. \A d \in Done : d \in Popped' <=> d \in Popped
      BY <2>3, <2>4, <2>5 DEF Popped
    <3> QED
      BY <2>3, <3>2, <3>3 DEF Popped
  <2>7. AllGood'
    BY <1>0, <1>3, <1>9, <2>1, <2>2 DEF Agreement, AllGood, CallsOK
  <2>8. Increasing(ready')
    <3>1. AllBelow(ready, c)
      BY <1>10 DEF Agreement, RoutesInOrder, AllBelow
    <3> QED
      BY <1>0, <2>1, <3>1, AppendIncreases DEF Agreement, RoutesInOrder, CallsOK
  <2>9. \A i \in 1..Len(ready') : ready'[i] \in Done' /\ \A d \in Popped' : d < ready'[i]
    <3> SUFFICES ASSUME NEW i \in 1..Len(ready')
                 PROVE  ready'[i] \in Done' /\ \A d \in Popped : d < ready'[i]
      BY <2>6
    <3>1. CASE i \in 1..Len(ready)
      BY <2>3, <2>4, <3>1 DEF Agreement, RoutesInOrder
    <3>2. CASE i = Len(ready) + 1
      BY <1>10, <2>3, <2>4, <3>2 DEF Popped
    <3> QED
      BY <2>5, <3>1, <3>2
  <2>10. \A m \in 1..Len(t) : t[m].type = "CMD_RESP" => \A d \in Done' : d < t[m].id
    BY <1>6, <1>8, <1>9, <2>3 DEF Agreement, RoutesInOrder
  <2>11. RoutesInOrder'
    BY <1>3, <1>6, <2>8, <2>9, <2>10 DEF RoutesInOrder
  <2> QED
    BY <1>3, <1>6, <1>11, <2>6, <2>7, <2>11 DEF Agreement
<1>13. CASE c \notin pending[k]
  <2>1. UNCHANGED <<promise, ready>>
    BY <1>6, <1>13 DEF OnResponse, Awaited
  <2>2. Done' = Done /\ Popped' = Popped
    BY <2>1 DEF Done, Popped
  <2>3. AllGood'
    BY <1>3, <2>1 DEF Agreement, AllGood
  <2>4. \A m \in 1..Len(t) : t[m].type = "CMD_RESP" => \A d \in Done : d < t[m].id
    BY <1>6, <1>8, <1>9 DEF Agreement, RoutesInOrder
  <2>5. RoutesInOrder'
    BY <1>3, <1>6, <2>1, <2>2, <2>4 DEF Agreement, RoutesInOrder
  <2> QED
    BY <1>3, <1>6, <1>11, <2>2, <2>3, <2>5 DEF Agreement
<1> QED
  BY <1>12, <1>13

\* The route that goes on is that of the next command, and sets the record.
LEMMA AgreeGoesOn ==
  ASSUME IInv, Agreement, RouteGoesOn
  PROVE  Agreement'
<1>0. CallsOK
  BY DEF IInv, Types
<1>1. /\ UNCHANGED <<up, promise, via, kind, result, bds, session>>
      /\ ready # <<>> /\ ready' = Tail(ready) /\ SetStatus(Head(ready))
  BY DEF RouteGoesOn, links, agent, server, gateway
<1>2. /\ ready \in Seq(Cmds) /\ Len(ready) \in Nat \ {0} /\ Head(ready) = ready[1]
      /\ Len(ready') = Len(ready) - 1
      /\ \A i \in 1..Len(ready') : ready'[i] = ready[i + 1]
  <2>1. ready \in Seq(Cmds)
    BY <1>0 DEF CallsOK
  <2>2. Len(ready) \in Nat \ {0}
    BY <1>1, <2>1, EmptySeq
  <2> QED
    BY <1>1, <2>1, <2>2, HeadTailProperties
<1> DEFINE c == ready[1]
<1>3. 1 \in 1..Len(ready) /\ \A i \in 1..Len(ready') : i + 1 \in 1..Len(ready) /\ 1 < i + 1
  BY <1>2
<1>4. c \in Cmds /\ c \in Done /\ promise[c] = "ok" /\ \A d \in Popped : d < c
  BY <1>2, <1>3 DEF Agreement, RoutesInOrder, Done
<1>5. \A i \in 1..Len(ready') : c < ready'[i]
  BY <1>2, <1>3 DEF Agreement, RoutesInOrder, Increasing
<1>6. Done' = Done /\ Executed' = Executed
  BY <1>1 DEF Done, Executed
<1>7. Popped' = Popped \cup {c}
  <2>1. c \in Popped'
    BY <1>4, <1>5, <1>6, TunnelAssumption DEF Popped, Cmds
  <2>2. \A d \in Popped : d \in Popped'
    BY <1>2, <1>3, <1>6 DEF Popped
  <2>3. ASSUME NEW d \in Popped', d # c PROVE d \in Popped
    <3>1. d \in Done /\ \A i \in 1..Len(ready') : ready[i + 1] # d
      BY <1>2, <1>6 DEF Popped
    <3>2. ASSUME NEW j \in 1..Len(ready) PROVE ready[j] # d
      <4>1. CASE j = 1
        BY <2>3, <4>1
      <4>2. CASE j # 1
        <5>1. j - 1 \in 1..Len(ready') /\ (j - 1) + 1 = j
          BY <1>2, <4>2
        <5> QED
          BY <3>1, <5>1
      <4> QED
        BY <4>1, <4>2
    <3> QED
      BY <3>1, <3>2 DEF Popped
  <2> QED
    BY <2>1, <2>2, <2>3
<1>8. Lit(Popped', kind) <=> \/ kind[c] \in {"START", "RESTART"}
                             \/ kind[c] # "STOP" /\ Lit(Popped, kind)
  <2>1. Popped \in SUBSET Cmds
    BY DEF Popped, Done
  <2>2. Lit(Popped \cup {c}, kind) <=> \/ kind[c] \in {"START", "RESTART"}
                                       \/ kind[c] # "STOP" /\ Lit(Popped, kind)
    BY <1>4, <2>1, LitAdds
  <2> QED
    BY <1>7, <2>2
<1>9. status' = "ONLINE" <=> Lit(Popped', kind)
  <2>1. kind[c] \in AllKinds
    BY <1>0, <1>4 DEF CallsOK
  <2>2. status' = CASE kind[c] \in {"START", "RESTART"} -> "ONLINE"
                    [] kind[c] = "STOP" -> "OFFLINE"
                    [] OTHER -> status
    BY <1>1, <1>2, <1>4, <2>1 DEF SetStatus, AllKinds
  <2> QED
    BY <1>8, <2>1, <2>2 DEF Agreement, AllKinds
<1>10. Increasing(ready')
  BY <1>2, <1>3 DEF Agreement, RoutesInOrder, Increasing
<1>11. \A i \in 1..Len(ready') : ready'[i] \in Done /\ \A d \in Popped' : d < ready'[i]
  BY <1>2, <1>3, <1>5, <1>7 DEF Agreement, RoutesInOrder
<1>12. AllGood'
  BY <1>1 DEF Agreement, AllGood
<1>13. RoutesInOrder'
  BY <1>1, <1>6, <1>10, <1>11 DEF Agreement, RoutesInOrder
<1> QED
  BY <1>1, <1>6, <1>9, <1>12, <1>13 DEF Agreement

\* A connection that is new has nothing in flight; an answer that is sent comes
\* after all that were handled; what else a step does concerns neither.
LEMMA AgreeElse ==
  ASSUME IInv, LastWork, UpInOrder, Agreement, [Next]_vars,
         UNCHANGED <<promise, ready, via, kind, result, status>>,
         bds' = "ONLINE" <=> bds = "ONLINE",
         ~(\E k \in Conns : ProcessFrame(k))
  PROVE  Agreement'
<1>0. LinksOK /\ AgentOK /\ GatewayOK
  BY DEF IInv, Types
<1>1. Done' = Done /\ Popped' = Popped /\ Executed' = Executed
  BY DEF Done, Popped, Executed
<1>2. AllGood'
  BY DEF Agreement, AllGood
<1>3. ASSUME session' # Nil, NEW m \in 1..Len(up'[session']),
             up'[session'][m].type = "CMD_RESP", NEW c \in Done
      PROVE  c < up'[session'][m].id
  <2>1. \/ session' = session /\ session \in Conns
        \/ session' \in Conns /\ ws[session'] = "none" /\ up' = up
    BY <1>0, <1>3
       DEF Next, Agent, Gateway, Routes, vars, gateway, links, GatewayOK, Dial,
           DialReturns, DialFails, ReadFails, Receive, HandleCommand, Respond,
           ProcessExits, OnProcessExit, CutLink, HandleConnection, SocketCloses,
           OnClose, Forget, SendCommand, RunLocally, CommandTimeout, RouteGoesOn,
           DeleteServer
  <2>2. CASE ws[session'] = "none" /\ session' \in Conns /\ up' = up
    BY <1>3, <2>2 DEF UpInOrder
  <2>3. CASE session' = session /\ session \in Conns
    <3> DEFINE k == session
    <3>1. \A n \in 1..Len(up[k]) : up[k][n].type = "CMD_RESP" => c < up[k][n].id
      BY <1>3, <2>3 DEF Agreement, RoutesInOrder
    <3>2. up[k] \in Seq(Frames) /\ Len(up[k]) \in Nat
      BY <1>0, <2>3, LenProperties DEF LinksOK
    <3>3. CASE up'[k] \in {up[k], <<>>}
      BY <1>3, <2>3, <3>1, <3>3
    <3>4. CASE /\ working \in Cmds /\ result[working] # "none"
               /\ up'[k] = Append(up[k], Resp(working))
      <4>1. c \in Executed /\ working \in Executed /\ promise[c] \in Results
        BY <3>4, DoneIsExecuted DEF Agreement, Executed, Done, Results
      <4>2. c < working
        BY <4>1, TunnelAssumption DEF LastWork, Executed, Cmds, Nil
      <4>3. Resp(working).id = working /\ Resp(working) \in Frames
        BY <3>4 DEF Resp, Frames
      <4>4. (m \in 1..Len(up[k]) /\ up'[k][m] = up[k][m]) \/ up'[k][m] = Resp(working)
        BY <1>3, <2>3, <3>2, <3>4, <4>3, Appended
      <4> QED
        BY <1>3, <2>3, <3>1, <4>2, <4>3, <4>4
    <3>5. CASE up'[k] = Append(up[k], Crash)
      <4>1. Crash.type # "CMD_RESP" /\ Crash \in Frames
        BY DEF Crash, Frames
      <4>2. (m \in 1..Len(up[k]) /\ up'[k][m] = up[k][m]) \/ up'[k][m] = Crash
        BY <1>3, <2>3, <3>2, <3>5, <4>1, Appended
      <4> QED
        BY <1>3, <2>3, <3>1, <4>1, <4>2
    <3> QED
      BY <2>3, <3>3, <3>4, <3>5, UpMoves
  <2> QED
    BY <2>1, <2>2, <2>3
<1>4. RoutesInOrder'
  BY <1>1, <1>3 DEF Agreement, RoutesInOrder
<1> QED
  BY <1>1, <1>2, <1>4 DEF Agreement

\* Every step that does not disturb keeps record and agent in agreement.
LEMMA AgreeStep ==
  IInv /\ OInv /\ AInv /\ Sound(bds, procs) /\ [Next]_vars => AgreeInv'
<1> SUFFICES ASSUME IInv, OInv, AInv, Sound(bds, procs), [Next]_vars, ~disturbed'
             PROVE  Agreement'
  BY DEF AgreeInv, Agreement
<1>1. ~disturbed
  BY DEF Next, Agent, Gateway, Routes, vars, Dial, DialReturns, DialFails, ReadFails,
         Receive, HandleCommand, Respond, ProcessExits, OnProcessExit, CutLink,
         HandleConnection, SocketCloses, OnClose, ProcessFrame, OnCrash, OnResponse,
         SendCommand, RunLocally, CommandTimeout, RouteGoesOn, DeleteServer
<1>2. Agreement /\ LastWork /\ UpInOrder
  BY <1>1 DEF AInv, AgreeInv, Agreement
<1>3. CASE HandleCommand
  BY <1>2, <1>3, AgreeExecutes
<1>4. ASSUME NEW c \in Cmds, NEW what \in Kinds, SendCommand(c, what) PROVE Agreement'
  BY <1>2, <1>4, AgreeSends
<1>5. ASSUME NEW k \in Conns, ProcessFrame(k) PROVE Agreement'
  BY <1>2, <1>5, AgreeAnswers
<1>6. CASE RouteGoesOn
  BY <1>2, <1>6, AgreeGoesOn
<1>7. CASE /\ ~HandleCommand /\ ~RouteGoesOn /\ ~(\E k \in Conns : ProcessFrame(k))
           /\ ~(\E c \in Cmds, what \in Kinds : SendCommand(c, what))
  <2>1. UNCHANGED <<promise, ready, via, kind, result, status>>
    BY <1>7
       DEF Next, Agent, Gateway, Routes, vars, calls, agent, record, Dial, DialReturns,
           DialFails, ReadFails, Receive, Respond, ProcessExits, OnProcessExit,
           CutLink, HandleConnection, SocketCloses, OnClose, RunLocally,
           CommandTimeout, DeleteServer
  <2>2. ASSUME NEW g, ProcessExits(g) PROVE bds' = "ONLINE" <=> bds = "ONLINE"
    BY <2>2, ExitSound
  <2>3. bds' = "ONLINE" <=> bds = "ONLINE"
    BY <1>7, <2>2
       DEF Next, Agent, Gateway, Routes, vars, agent, server, Dial, DialReturns,
           DialFails, ReadFails, Receive, Respond, OnProcessExit, CutLink,
           HandleConnection, SocketCloses, OnClose, RunLocally, CommandTimeout,
           DeleteServer
  <2> QED
    BY <1>2, <1>7, <2>1, <2>3, AgreeElse
<1> QED
  BY <1>3, <1>4, <1>5, <1>6, <1>7

\* Whatever is asked for at once and however connections follow one another: as
\* long as every command succeeds and is answered in time on the session's own
\* connection, the record agrees with the agent whenever no request is under way.
THEOREM UndisturbedAgrees == Spec => []AgreesUndisturbed
<1>1. Init => AInv
  <2> SUFFICES ASSUME Init PROVE AInv
    OBVIOUS
  <2>1. Executed = {} /\ Done = {} /\ Popped = {}
    BY DEF Init, Executed, Done, Popped
  <2>2. LastWork /\ UpInOrder
    BY <2>1 DEF Init, LastWork, UpInOrder, Nil
  <2>3. AllGood /\ RoutesInOrder
    BY <2>1 DEF Init, AllGood, RoutesInOrder, Increasing, Nil
  <2>4. ~Lit({}, kind)
    BY DEF Lit
  <2> QED
    BY <2>1, <2>2, <2>3, <2>4 DEF Init, AInv, AgreeInv
<1>2. IInv /\ OInv /\ AInv /\ Sound(bds, procs) /\ [Next]_vars => AInv'
  BY LastWorkStep, UpInOrderStep, AgreeStep DEF AInv
<1>3. IInv /\ AInv => AgreesUndisturbed
  <2> SUFFICES ASSUME IInv, AInv, ~disturbed, ready = <<>>,
                      \A c \in Cmds : promise[c] # "waiting"
               PROVE  status = "ONLINE" <=> bds = "ONLINE"
    BY DEF AgreesUndisturbed
  <2>1. Agreement
    BY DEF AInv, AgreeInv, Agreement
  <2>2. Popped = Done
    BY DEF Popped
  <2>3. Done = Executed
    <3>1. Done \subseteq Executed /\ \A c \in Executed : promise[c] # "none"
      BY <2>1, DoneIsExecuted DEF Agreement
    <3> QED
      BY <2>1, <3>1 DEF Agreement, AllGood, Done, Executed
  <2> QED
    BY <2>1, <2>2, <2>3 DEF Agreement
<1> QED
  BY <1>1, <1>2, <1>3, TunnelInvariant, OrderInvariant, SoundInvariant, PTL DEF Spec

=============================================================================
