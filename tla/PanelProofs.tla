------------------------------ MODULE PanelProofs ------------------------------
(***************************************************************************)
(* Three parts of the panel: the console page of the browser, its other    *)
(* pages, and the runner of local servers.                                 *)
(*                                                                         *)
(* What the console page shows, for any number of servers, streams, lines  *)
(* and broken connections.  That no line of an earlier stream slips in     *)
(* follows from OneStream: only the page's own stream has an open socket,  *)
(* for a disposed one is closing and never connects again.  The order of   *)
(* the lines needs that what is on the way to that socket comes after      *)
(* everything shown.                                                       *)
(*                                                                         *)
(* What the local runner holds and whom its timers kill, for any number of *)
(* processes, requests and restarts.  UntoldIsHeld needs that a runner     *)
(* that is OFFLINE has no handle it could use: a start that finds it so    *)
(* overwrites the handle.  KillHasCause needs that whatever is in the      *)
(* handle while a timer is pending was spawned since.                      *)
(*                                                                         *)
(* What the pages keep showing, and which of their buttons are disabled,   *)
(* for any number of requests under way, changes and failures.  That an    *)
(* action stays shown needs that whatever has been read for the page and   *)
(* is still on its way is no older: what was older when the action was     *)
(* shown is excepted by its definition, what is read later cannot be.      *)
(***************************************************************************)
EXTENDS LiveStream, LocalHost, Pages, SequenceTheorems, FiniteSetTheorems, TLAPS


\* Lines of server s, numbered upwards to n at most.
Rising(q, s, n) ==
  /\ \A i \in 1..Len(q) : q[i][1] = s /\ q[i][2] <= n
  /\ \A i, j \in 1..Len(q) : i < j => q[i][2] < q[j][2]

\* Every line of p was broadcast before every line of q.
Before(p, q) == \A i \in 1..Len(p), j \in 1..Len(q) : p[i][2] < q[j][2]

PageOK ==
  /\ active \in Servers \cup {NoServer} /\ cur \in Streams
  /\ server \in [Streams -> Servers \cup {NoServer}]
  /\ disposed \in [Streams -> BOOLEAN] /\ phase \in [Streams -> Phases]

LinesOK ==
  /\ shown \in Seq(Line)
  /\ down \in [Streams -> Seq(Line)]
  /\ subs \subseteq hub /\ asking \subseteq hub /\ hub \subseteq Streams
  /\ lines \in 0..MaxLines

\* The streams before the page's are disposed, those after it are not opened.
StreamsInv ==
  /\ \A k \in Streams :
       /\ k < cur => disposed[k]
       /\ k > cur => phase[k] = "idle" /\ ~disposed[k] /\ k \notin hub /\ down[k] = <<>>
       /\ disposed[k] => phase[k] \in {"idle", "closing"}
  /\ active = NoServer => disposed[cur]
  /\ active # NoServer => ~disposed[cur] /\ server[cur] = active

\* Lines are of their stream's server, in order, and come after what is shown.
LinesInv ==
  /\ \A k \in Streams : Rising(down[k], server[k], lines)
  /\ Rising(shown, active, lines)
  /\ Before(shown, down[cur])

IInv ==
  /\ PageOK
  /\ LinesOK
  /\ StreamsInv
  /\ LinesInv
  /\ OpenIsReal

-----------------------------------------------------------------------------
(* Sequences of lines *)

\* A new line at the end of others.
LEMMA Appended ==
  ASSUME NEW q \in Seq(Line), NEW s \in Servers, NEW n \in Nat, n + 1 \in 1..MaxLines,
         Rising(q, s, n)
  PROVE  LET t == Append(q, <<s, n + 1>>)
         IN  /\ t \in Seq(Line) /\ Rising(t, s, n + 1)
             /\ \A p \in Seq(Line) : Before(p, q) /\ Rising(p, s, n) => Before(p, t)
<1> DEFINE e == <<s, n + 1>>
           t == Append(q, e)
<1>1. e \in Line /\ e[1] = s /\ e[2] = n + 1
  BY DEF Line
<1> HIDE DEF e
<1>2. /\ t \in Seq(Line) /\ Len(q) \in Nat /\ Len(t) = Len(q) + 1
      /\ \A i \in 1..Len(q) : t[i] = q[i]
      /\ t[Len(q) + 1] = e
  BY <1>1
<1>3. \A i \in 1..Len(q) : q[i] \in Line
  BY ElementOfSeq
<1>4. \A x \in Line : x[2] \in Int
  BY DEF Line
<1> HIDE DEF t
<1>5. Rising(t, s, n + 1)
  <2>1. \A i \in 1..Len(t) : i \in 1..Len(q) \/ i = Len(q) + 1
    BY <1>2
  <2>2. \A i \in 1..Len(t) : t[i][1] = s /\ t[i][2] <= n + 1
    <3> SUFFICES ASSUME NEW i \in 1..Len(t) PROVE t[i][1] = s /\ t[i][2] <= n + 1
      OBVIOUS
    <3>1. CASE i \in 1..Len(q)
      <4>1. q[i][1] = s /\ q[i][2] <= n /\ q[i][2] \in Int
        BY <1>3, <1>4, <3>1 DEF Rising
      <4>2. t[i] = q[i]
        BY <1>2, <3>1
      <4> QED
        BY <4>1, <4>2
    <3>2. CASE i = Len(q) + 1
      BY <1>1, <1>2, <3>2
    <3> QED
      BY <2>1, <3>1, <3>2
  <2>3. ASSUME NEW i \in 1..Len(t), NEW j \in 1..Len(t), i < j PROVE t[i][2] < t[j][2]
    <3>1. i \in 1..Len(q) /\ q[i][2] <= n
      BY <1>2, <2>3 DEF Rising
    <3>2. CASE j \in 1..Len(q)
      BY <1>2, <2>3, <3>1, <3>2 DEF Rising
    <3>3. CASE j = Len(q) + 1
      <4>1. t[i] = q[i] /\ t[j][2] = n + 1
        BY <1>1, <1>2, <3>1, <3>3
      <4>2. q[i][2] \in Int
        BY <1>3, <1>4, <3>1
      <4> QED
        BY <3>1, <4>1, <4>2
    <3> QED
      BY <2>1, <3>2, <3>3
  <2> QED
    BY <2>2, <2>3 DEF Rising
<1>6. ASSUME NEW p \in Seq(Line), Before(p, q), Rising(p, s, n) PROVE Before(p, t)
  <2> SUFFICES ASSUME NEW i \in 1..Len(p), NEW j \in 1..Len(t) PROVE p[i][2] < t[j][2]
    BY DEF Before
  <2>1. p[i] \in Line /\ p[i][2] <= n /\ p[i][2] \in Int
    BY <1>4, <1>6, ElementOfSeq DEF Rising
  <2>2. CASE j \in 1..Len(q)
    BY <1>2, <1>6, <2>2 DEF Before
  <2>3. CASE j = Len(q) + 1
    BY <1>1, <1>2, <2>1, <2>3
  <2> QED
    BY <1>2, <2>2, <2>3
<1> QED
  BY <1>2, <1>5, <1>6 DEF t, e

\* The first of the coming lines goes to the end of those shown.
LEMMA HeadMoves ==
  ASSUME NEW p \in Seq(Line), NEW q \in Seq(Line), NEW s, NEW n \in Nat, q # <<>>,
         Rising(p, s, n), Rising(q, s, n), Before(p, q)
  PROVE  /\ Append(p, Head(q)) \in Seq(Line) /\ Tail(q) \in Seq(Line)
         /\ Rising(Append(p, Head(q)), s, n) /\ Rising(Tail(q), s, n)
         /\ Before(Append(p, Head(q)), Tail(q))
<1> DEFINE e == Head(q)
           u == Tail(q)
           t == Append(p, e)
<1>1. /\ Len(q) \in Nat \ {0} /\ e = q[1] /\ e \in Line
      /\ u \in Seq(Line) /\ Len(u) = Len(q) - 1 /\ \A i \in 1..Len(u) : u[i] = q[i + 1]
  BY HeadTailProperties, EmptySeq, LenProperties
<1> HIDE DEF e, u
<1>2. /\ t \in Seq(Line) /\ Len(p) \in Nat /\ Len(t) = Len(p) + 1
      /\ \A i \in 1..Len(p) : t[i] = p[i]
      /\ t[Len(p) + 1] = e
  BY <1>1
<1> HIDE DEF t
<1>3. \A i \in 1..Len(t) : i \in 1..Len(p) \/ i = Len(p) + 1
  BY <1>2
<1>4. 1 \in 1..Len(q) /\ \A j \in 1..Len(u) : j + 1 \in 1..Len(q) /\ 1 < j + 1
  BY <1>1
<1>5. Rising(t, s, n)
  <2>1. \A i \in 1..Len(t) : t[i][1] = s /\ t[i][2] <= n
    BY <1>1, <1>2, <1>3, <1>4 DEF Rising
  <2>2. ASSUME NEW i \in 1..Len(t), NEW j \in 1..Len(t), i < j PROVE t[i][2] < t[j][2]
    <3>1. i \in 1..Len(p)
      BY <1>2, <2>2
    <3>2. CASE j \in 1..Len(p)
      BY <1>2, <2>2, <3>1, <3>2 DEF Rising
    <3>3. CASE j = Len(p) + 1
      BY <1>1, <1>2, <1>4, <3>1, <3>3 DEF Before
    <3> QED
      BY <1>3, <3>2, <3>3
  <2> QED
    BY <2>1, <2>2 DEF Rising
<1>6. Rising(u, s, n)
  <2>1. \A i, j \in 1..Len(u) : i < j => i + 1 < j + 1
    BY <1>1
  <2> QED
    BY <1>1, <1>4, <2>1 DEF Rising
<1>7. Before(t, u)
  <2> SUFFICES ASSUME NEW i \in 1..Len(t), NEW j \in 1..Len(u) PROVE t[i][2] < u[j][2]
    BY DEF Before
  <2>1. CASE i \in 1..Len(p)
    BY <1>1, <1>2, <1>4, <2>1 DEF Before
  <2>2. CASE i = Len(p) + 1
    BY <1>1, <1>2, <1>4, <2>2 DEF Rising
  <2> QED
    BY <1>3, <2>1, <2>2
<1> QED
  BY <1>1, <1>2, <1>5, <1>6, <1>7 DEF e, u, t

\* Lines are in order whatever else is broadcast.
LEMMA OneMore ==
  ASSUME NEW q \in Seq(Line), NEW s, NEW n \in Nat, Rising(q, s, n)
  PROVE  Rising(q, s, n + 1)
<1>1. \A i \in 1..Len(q) : q[i] \in Line
  BY ElementOfSeq
<1>2. \A x \in Line : x[2] \in Int
  BY DEF Line
<1> QED
  BY <1>1, <1>2 DEF Rising

\* Every line is of a server: without one there is none.
LEMMA NothingLeft ==
  ASSUME NEW q \in Seq(Line), NEW s, NEW n, s \notin Servers, Rising(q, s, n)
  PROVE  q = <<>>
<1>1. SUFFICES ASSUME q # <<>> PROVE FALSE
  OBVIOUS
<1>2. Len(q) \in Nat \ {0}
  BY <1>1, EmptySeq, LenProperties
<1>3. 1 \in 1..Len(q)
  BY <1>2
<1>4. q[1] \in Line /\ q[1][1] = s
  BY <1>3, ElementOfSeq DEF Rising
<1> QED
  BY <1>4 DEF Line

\* Nothing is in order, and before and after everything.
LEMMA EmptyRises ==
  ASSUME NEW s, NEW n, NEW q
  PROVE  Rising(<<>>, s, n) /\ Before(<<>>, q) /\ Before(q, <<>>)
BY DEF Rising, Before

-----------------------------------------------------------------------------
(* Steps *)

\* Only the page's own stream is connecting, connected or waiting.
LEMMA OnlyCur ==
  ASSUME PageOK, StreamsInv, NEW k \in Streams, phase[k] \notin {"idle", "closing"}
  PROVE  k = cur /\ ~disposed[k] /\ active # NoServer
<1>1. k \in Int /\ cur \in Int
  BY StreamAssumption DEF PageOK, Streams
<1>2. ~(k < cur) /\ ~(k > cur) /\ ~disposed[k]
  BY DEF StreamsInv
<1>3. k = cur
  BY <1>1, <1>2
<1> QED
  BY <1>2, <1>3 DEF StreamsInv

\* What moves only sockets and the status pill keeps the lines in order.
LEMMA LinesKept ==
  ASSUME LinesInv, UNCHANGED <<page, shown, down, lines>>
  PROVE  LinesInv'
BY DEF LinesInv, Rising, Before, page

\* Sockets that are dropped have nothing on their way any more.
LEMMA DroppedLines ==
  ASSUME NEW S, PageOK, LinesOK, LinesInv, Dropped(S), UNCHANGED <<page, shown, lines>>
  PROVE  LinesOK' /\ LinesInv'
<1>1. LinesOK'
  <2>1. <<>> \in Seq(Line)
    OBVIOUS
  <2> QED
    BY <2>1 DEF LinesOK, Dropped
<1>2. \A k \in Streams : down'[k] = <<>> \/ down'[k] = down[k]
  BY DEF Dropped
<1>3. UNCHANGED <<active, cur, server>> /\ cur \in Streams
  BY DEF page, PageOK
<1>4. ASSUME NEW k \in Streams PROVE Rising(down'[k], server'[k], lines')
  BY <1>2, <1>3, EmptyRises DEF LinesInv
<1>5. Before(shown', down'[cur'])
  BY <1>2, <1>3, EmptyRises DEF LinesInv
<1>6. Rising(shown', active', lines')
  BY <1>3 DEF LinesInv
<1> QED
  BY <1>1, <1>4, <1>5, <1>6 DEF LinesInv

\* A step of one stream.
LEMMA StreamStepInv ==
  ASSUME IInv, NEW k \in Streams, StreamStep(k)
  PROVE  IInv'
<1> USE DEF IInv
<1>1. CASE OnOpen(k)
  <2>1. k = cur /\ ~disposed[k] /\ active # NoServer
    BY <1>1, OnlyCur DEF OnOpen
  <2>2. PageOK' /\ LinesOK' /\ OpenIsReal'
    BY <1>1, <2>1 DEF OnOpen, PageOK, LinesOK, OpenIsReal, Phases, page, world
  <2>3. StreamsInv'
    BY <1>1, <2>1 DEF OnOpen, StreamsInv, page, PageOK
  <2>4. LinesInv'
    BY <1>1, LinesKept DEF OnOpen, world
  <2> QED
    BY <2>2, <2>3, <2>4
<1>2. CASE OnMessage(k)
  <2>1. k = cur /\ ~disposed[k] /\ active # NoServer
    BY <1>2, OnlyCur DEF OnMessage
  <2>2. server[k] = active /\ lines \in Nat /\ down[k] \in Seq(Line) /\ shown \in Seq(Line)
    BY <2>1, StreamAssumption DEF StreamsInv, LinesOK
  <2>3. Rising(down[k], active, lines) /\ Rising(shown, active, lines) /\ Before(shown, down[k])
    BY <2>1, <2>2 DEF LinesInv
  <2>4. /\ shown' \in Seq(Line) /\ down'[k] \in Seq(Line)
        /\ Rising(shown', active, lines) /\ Rising(down'[k], active, lines)
        /\ Before(shown', down'[k])
    <3>1. down[k] # <<>> /\ shown' = Append(shown, Head(down[k])) /\ down'[k] = Tail(down[k])
      BY <1>2 DEF OnMessage, LinesOK
    <3> QED
      BY <2>2, <2>3, <3>1, HeadMoves
  <2>5. \A j \in Streams : j # k => down'[j] = down[j]
    BY <1>2 DEF OnMessage, LinesOK
  <2>6. /\ UNCHANGED <<active, cur, server, disposed, phase, status, lines, hub, subs, asking>>
        /\ down' = [down EXCEPT ![k] = Tail(@)]
    BY <1>2 DEF OnMessage, page, world
  <2>7. PageOK' /\ OpenIsReal'
    BY <2>6 DEF PageOK, OpenIsReal
  <2>8. LinesOK'
    <3>1. down' \in [Streams -> Seq(Line)]
      BY <2>2, <2>4, <2>6 DEF LinesOK
    <3> QED
      BY <2>4, <2>6, <3>1 DEF LinesOK
  <2>9. StreamsInv'
    BY <2>1, <2>5, <2>6 DEF StreamsInv
  <2>10. LinesInv'
    <3>1. ASSUME NEW j \in Streams PROVE Rising(down'[j], server'[j], lines')
      BY <2>2, <2>4, <2>5, <2>6 DEF LinesInv
    <3> QED
      BY <2>1, <2>4, <2>6, <3>1 DEF LinesInv
  <2> QED
    BY <2>7, <2>8, <2>9, <2>10
<1>3. CASE OnClose(k)
  <2>1. PageOK' /\ LinesOK'
    BY <1>3 DEF OnClose, AfterClose, PageOK, LinesOK, Phases, page, hubs, world
  <2>2. StreamsInv'
    BY <1>3 DEF OnClose, AfterClose, StreamsInv, page, PageOK, hubs
  <2>3. OpenIsReal'
    BY <1>3 DEF OnClose, AfterClose, OpenIsReal, page, PageOK, StreamsInv
  <2>4. LinesInv'
    BY <1>3, LinesKept DEF OnClose, hubs, world
  <2> QED
    BY <2>1, <2>2, <2>3, <2>4
<1>4. CASE Reconnect(k)
  <2>1. k = cur /\ ~disposed[k] /\ active # NoServer
    BY <1>4, OnlyCur DEF Reconnect
  <2>2. PageOK' /\ LinesOK' /\ OpenIsReal'
    BY <1>4, <2>1 DEF Reconnect, PageOK, LinesOK, OpenIsReal, Phases, page, hubs, world
  <2>3. StreamsInv'
    BY <1>4, <2>1 DEF Reconnect, StreamsInv, page, PageOK, hubs
  <2>4. LinesInv'
    BY <1>4, LinesKept DEF Reconnect, hubs, world
  <2> QED
    BY <2>2, <2>3, <2>4
<1>5. CASE ConnectFails(k)
  <2>1. k = cur /\ ~disposed[k] /\ active # NoServer
    BY <1>5, OnlyCur DEF ConnectFails
  <2>2. PageOK' /\ LinesOK' /\ OpenIsReal'
    BY <1>5, <2>1 DEF ConnectFails, PageOK, LinesOK, OpenIsReal, Phases, page, hubs, world
  <2>3. StreamsInv'
    BY <1>5, <2>1 DEF ConnectFails, StreamsInv, page, PageOK, hubs
  <2>4. LinesInv'
    BY <1>5, LinesKept DEF ConnectFails, hubs, world
  <2> QED
    BY <2>2, <2>3, <2>4
<1>6. CASE Upgrade(k)
  <2>1. k = cur /\ ~disposed[k] /\ active # NoServer
    BY <1>6, OnlyCur DEF Upgrade
  <2>2. PageOK' /\ LinesOK' /\ OpenIsReal'
    BY <1>6, <2>1 DEF Upgrade, PageOK, LinesOK, OpenIsReal, Phases, page, view, world
  <2>3. StreamsInv'
    <3>1. k \in Int
      BY DEF Streams
    <3>2. hub' \subseteq hub \cup {k} /\ UNCHANGED <<page, down>> /\ phase' = [phase EXCEPT ![k] = "accepted"]
      BY <1>6 DEF Upgrade
    <3> QED
      BY <2>1, <3>1, <3>2 DEF StreamsInv, page, PageOK
  <2>4. LinesInv'
    BY <1>6, LinesKept DEF Upgrade, view, world
  <2> QED
    BY <2>2, <2>3, <2>4
<1>7. CASE Reject(k)
  <2>1. k = cur /\ ~disposed[k] /\ active # NoServer
    BY <1>7, OnlyCur DEF Reject
  <2>2. PageOK' /\ LinesOK' /\ OpenIsReal'
    BY <1>7, <2>1 DEF Reject, PageOK, LinesOK, OpenIsReal, Phases, page, view, hubs, world
  <2>3. StreamsInv'
    BY <1>7, <2>1 DEF Reject, StreamsInv, page, PageOK, hubs
  <2>4. LinesInv'
    BY <1>7, LinesKept DEF Reject, view, hubs, world
  <2> QED
    BY <2>2, <2>3, <2>4
<1>8. CASE Subscribe(k)
  <2>1. /\ UNCHANGED <<page, phase, view, hub, down, world>>
        /\ k \in asking /\ asking' = asking \ {k} /\ subs' \subseteq subs \cup {k}
    BY <1>8 DEF Subscribe
  <2>2. PageOK' /\ LinesOK' /\ OpenIsReal' /\ StreamsInv'
    BY <2>1 DEF PageOK, LinesOK, OpenIsReal, StreamsInv, page, view, world
  <2>3. LinesInv'
    BY <2>1, LinesKept DEF view, world
  <2> QED
    BY <2>2, <2>3
<1>9. CASE HubSeesClose(k)
  <2>1. LinesOK' /\ LinesInv'
    BY <1>9, DroppedLines DEF HubSeesClose, view, world
  <2>2. PageOK' /\ OpenIsReal'
    BY <1>9 DEF HubSeesClose, PageOK, OpenIsReal, page, view
  <2>3. StreamsInv'
    BY <1>9 DEF HubSeesClose, Dropped, StreamsInv, page
  <2> QED
    BY <2>1, <2>2, <2>3
<1> QED
  BY <1>1, <1>2, <1>3, <1>4, <1>5, <1>6, <1>7, <1>8, <1>9 DEF StreamStep

\* Connections end, and the API forgets them.
LEMMA ConnectionsEnd ==
  ASSUME IInv, NEW S, Dropped(S), UNCHANGED <<page, view, lines>>,
         phase' \in [Streams -> Phases],
         \A k \in Streams : \/ phase'[k] = phase[k]
                            \/ phase[k] \in {"accepted", "open"} /\ phase'[k] = "closing"
  PROVE  IInv'
<1> USE DEF IInv
<1>1. LinesOK' /\ LinesInv'
  BY DroppedLines DEF view
<1>2. UNCHANGED <<active, cur, server, disposed, status>>
  BY DEF page, view
<1>3. PageOK' /\ OpenIsReal'
  BY <1>2 DEF PageOK, OpenIsReal
<1>4. hub' \subseteq hub /\ \A k \in Streams : down'[k] = <<>> \/ down'[k] = down[k]
  BY DEF Dropped
<1>5. StreamsInv'
  BY <1>2, <1>4 DEF StreamsInv
<1> QED
  BY <1>1, <1>3, <1>5

\* A line of server s goes to the subscribed streams of s.
LEMMA BroadcastInv ==
  ASSUME IInv, NEW s \in Servers, Broadcast(s)
  PROVE  IInv'
<1> USE DEF IInv
<1>1. /\ UNCHANGED <<active, cur, server, disposed, phase, status, shown, hub, subs, asking>>
      /\ lines \in Nat /\ lines + 1 \in 1..MaxLines /\ lines' = lines + 1
      /\ lines' \in 0..MaxLines
  BY StreamAssumption DEF Broadcast, page, view, LinesOK
<1>2. /\ \A k \in Receivers(s) :
           server[k] = s /\ k \in hub /\ k \in Streams /\ down'[k] = Append(down[k], <<s, lines + 1>>)
      /\ \A k \in Streams \ Receivers(s) : down'[k] = down[k]
  BY <1>1 DEF Broadcast, Receivers, LinesOK
<1>3. \A k \in Streams : down[k] \in Seq(Line)
  BY DEF LinesOK
<1>4. ASSUME NEW k \in Receivers(s)
      PROVE  /\ down'[k] \in Seq(Line) /\ Rising(down'[k], s, lines + 1)
             /\ \A p \in Seq(Line) : Before(p, down[k]) /\ Rising(p, s, lines) => Before(p, down'[k])
  <2>1. Rising(down[k], s, lines) /\ down[k] \in Seq(Line)
    BY <1>2, <1>3, <1>4 DEF LinesInv
  <2>2. LET t == Append(down[k], <<s, lines + 1>>)
        IN  /\ t \in Seq(Line) /\ Rising(t, s, lines + 1)
            /\ \A p \in Seq(Line) : Before(p, down[k]) /\ Rising(p, s, lines) => Before(p, t)
    BY ONLY <1>1, <2>1, s \in Servers, Appended
  <2> QED
    BY <1>2, <1>4, <2>2
<1>5. PageOK' /\ OpenIsReal'
  BY <1>1 DEF PageOK, OpenIsReal
<1>6. LinesOK'
  <2>1. \A k \in Streams : down'[k] \in Seq(Line)
    BY <1>2, <1>3, <1>4
  <2>2. down' = [k \in Streams |-> down'[k]]
    BY <1>1 DEF Broadcast
  <2>3. down' \in [Streams -> Seq(Line)]
    BY <2>1, <2>2
  <2> QED
    BY <1>1, <2>3 DEF LinesOK
<1>7. StreamsInv'
  <2>1. ASSUME NEW k \in Streams, k > cur PROVE down'[k] = <<>>
    BY <1>2, <2>1 DEF StreamsInv
  <2> QED
    BY <1>1, <2>1 DEF StreamsInv
<1>8. LinesInv'
  <2>1. ASSUME NEW q \in Seq(Line), NEW x, Rising(q, x, lines) PROVE Rising(q, x, lines + 1)
    BY <1>1, <2>1, OneMore
  <2>2. ASSUME NEW k \in Streams PROVE Rising(down'[k], server'[k], lines')
    <3>1. CASE k \in Receivers(s)
      BY <1>1, <1>2, <1>4, <3>1
    <3>2. CASE k \notin Receivers(s)
      BY <1>1, <1>2, <1>3, <2>1, <3>2 DEF LinesInv
    <3> QED
      BY <3>1, <3>2
  <2>3. Rising(shown', active', lines')
    BY <1>1, <2>1 DEF LinesInv, LinesOK
  <2>4. Before(shown', down'[cur'])
    <3>1. Before(shown, down[cur]) /\ Rising(shown, active, lines) /\ shown \in Seq(Line)
          /\ cur \in Streams
      BY DEF LinesInv, LinesOK, PageOK
    <3>2. CASE cur \in Receivers(s)
      <4>1. CASE active = NoServer
        <5>1. shown = <<>> \/ active \in Servers
          BY <4>1, NothingLeft, <3>1 DEF LinesOK
        <5> QED
          BY <1>1, <4>1, <5>1, EmptyRises, StreamAssumption
      <4>2. CASE active # NoServer
        <5>1. active = s
          BY <1>2, <3>2, <4>2 DEF StreamsInv
        <5> QED
          BY <1>1, <1>4, <3>1, <3>2, <5>1
      <4> QED
        BY <4>1, <4>2
    <3>3. CASE cur \notin Receivers(s)
      BY <1>1, <1>2, <3>1, <3>3
    <3> QED
      BY <3>2, <3>3
  <2> QED
    BY <2>2, <2>3, <2>4 DEF LinesInv
<1> QED
  BY <1>5, <1>6, <1>7, <1>8

\* The operator picks another server, or leaves.
LEMMA PageInv ==
  ASSUME IInv, (\E s \in Servers : Switch(s)) \/ Leave
  PROVE  IInv'
<1> USE DEF IInv
<1>1. /\ active # NoServer /\ ~disposed[cur] /\ cur \in Streams /\ cur \in Nat
      /\ disposed' = [disposed EXCEPT ![cur] = TRUE] /\ shown' = <<>> /\ <<>> \in Seq(Line)
      /\ UNCHANGED <<hub, subs, asking, down, lines>> /\ status' # "open"
  BY DEF Switch, Leave, Dispose, StreamsInv, PageOK, Streams, hubs, world
<1>2. LinesOK'
  BY <1>1 DEF LinesOK
<1>3. OpenIsReal'
  BY <1>1 DEF OpenIsReal
<1>4. Closed(cur) \in [Streams -> Phases]
      /\ Closed(cur)[cur] \in {"idle", "closing"}
      /\ \A k \in Streams : k # cur => Closed(cur)[k] = phase[k]
  BY <1>1 DEF Closed, Connected, Phases, PageOK
<1> HIDE DEF Closed
<1>5. ASSUME NEW s \in Servers, Switch(s) PROVE PageOK' /\ StreamsInv' /\ LinesInv'
  <2>1. /\ active' = s /\ cur' = cur + 1 /\ server' = [server EXCEPT ![cur + 1] = s]
        /\ phase' = [Closed(cur) EXCEPT ![cur + 1] = "connecting"]
        /\ s # NoServer /\ cur + 1 \in Streams
    BY <1>1, <1>5, StreamAssumption DEF Switch, Dispose, Streams
  <2>2. PageOK'
    BY <1>1, <1>4, <2>1 DEF PageOK, Phases
  <2>3. /\ \A k \in Streams : k # cur + 1 => phase'[k] = Closed(cur)[k] /\ server'[k] = server[k]
        /\ \A k \in Streams : k # cur => disposed'[k] = disposed[k]
        /\ server'[cur + 1] = s /\ disposed'[cur] /\ ~disposed[cur + 1] /\ down[cur + 1] = <<>>
        /\ phase'[cur + 1] = "connecting"
    BY <1>1, <1>4, <2>1 DEF PageOK, StreamsInv
  <2>4. StreamsInv'
    <3>1. ASSUME NEW k \in Streams PROVE
            /\ k < cur' => disposed'[k]
            /\ k > cur' => phase'[k] = "idle" /\ ~disposed'[k] /\ k \notin hub' /\ down'[k] = <<>>
            /\ disposed'[k] => phase'[k] \in {"idle", "closing"}
      <4>1. k \in Int
        BY DEF Streams
      <4>2. CASE k < cur
        BY <1>1, <1>4, <2>1, <2>3, <4>1, <4>2 DEF StreamsInv
      <4>3. CASE k = cur
        BY <1>1, <1>4, <2>1, <2>3, <4>3
      <4>4. CASE k = cur + 1
        BY <1>1, <2>1, <2>3, <4>4
      <4>5. CASE k > cur + 1
        BY <1>1, <1>4, <2>1, <2>3, <4>1, <4>5 DEF StreamsInv
      <4> QED
        BY <1>1, <4>1, <4>2, <4>3, <4>4, <4>5
    <3>2. active' # NoServer /\ ~disposed'[cur'] /\ server'[cur'] = active'
      BY <1>1, <2>1, <2>3
    <3> QED
      BY <3>1, <3>2 DEF StreamsInv
  <2>5. LinesInv'
    <3>1. ASSUME NEW k \in Streams PROVE Rising(down'[k], server'[k], lines')
      BY <1>1, <2>3, EmptyRises DEF LinesInv
    <3> QED
      BY <1>1, <3>1, EmptyRises DEF LinesInv
  <2> QED
    BY <2>2, <2>4, <2>5
<1>6. ASSUME Leave PROVE PageOK' /\ StreamsInv' /\ LinesInv'
  <2>1. active' = NoServer /\ UNCHANGED <<cur, server>> /\ phase' = Closed(cur)
    BY <1>6 DEF Leave, Dispose
  <2>2. PageOK'
    BY <1>1, <1>4, <2>1 DEF PageOK
  <2>3. \A k \in Streams : k # cur => disposed'[k] = disposed[k]
    BY <1>1 DEF PageOK
  <2>4. disposed'[cur]
    BY <1>1 DEF PageOK
  <2>5. StreamsInv'
    BY <1>1, <1>4, <2>1, <2>3, <2>4 DEF StreamsInv
  <2>6. LinesInv'
    <3>1. ASSUME NEW k \in Streams PROVE Rising(down'[k], server'[k], lines')
      BY <1>1, <2>1 DEF LinesInv
    <3> QED
      BY <1>1, <3>1, EmptyRises DEF LinesInv
  <2> QED
    BY <2>2, <2>5, <2>6
<1> QED
  BY <1>2, <1>3, <1>5, <1>6

-----------------------------------------------------------------------------
(* The invariant *)

\* The page has just opened its first stream.
LEMMA InitIInv == Init => IInv
<1> SUFFICES ASSUME Init PROVE IInv
  OBVIOUS
<1>1. 1 \in Streams /\ \A k \in Streams : k \in Int /\ 1 <= k
  BY StreamAssumption DEF Streams
<1>2. <<>> \in Seq(Line) /\ 0 \in 0..MaxLines
  BY StreamAssumption
<1>3. PageOK /\ LinesOK /\ OpenIsReal
  BY <1>1, <1>2 DEF Init, PageOK, LinesOK, OpenIsReal, Phases
<1>4. StreamsInv
  BY <1>1, StreamAssumption DEF Init, StreamsInv
<1>5. LinesInv
  BY <1>1, EmptyRises DEF Init, LinesInv
<1> QED
  BY <1>3, <1>4, <1>5 DEF IInv

\* Every step keeps the invariant.
LEMMA NextIInv == IInv /\ [Next]_vars => IInv'
<1> SUFFICES ASSUME IInv, [Next]_vars PROVE IInv'
  OBVIOUS
<1>1. ASSUME NEW k \in Streams, StreamStep(k) PROVE IInv'
  BY <1>1, StreamStepInv
<1>2. ASSUME NEW k \in Streams, Break(k) PROVE IInv'
  <2>1. /\ Dropped({k}) /\ UNCHANGED <<page, view, lines>>
        /\ phase[k] \in {"accepted", "open"} /\ phase' = [phase EXCEPT ![k] = "closing"]
    BY <1>2 DEF Break
  <2>2. phase \in [Streams -> Phases] /\ "closing" \in Phases
    BY DEF IInv, PageOK, Phases
  <2>3. phase' \in [Streams -> Phases] /\ phase'[k] = "closing"
        /\ \A j \in Streams : j # k => phase'[j] = phase[j]
    BY <2>1, <2>2
  <2>4. \A j \in Streams : \/ phase'[j] = phase[j]
                           \/ phase[j] \in {"accepted", "open"} /\ phase'[j] = "closing"
    BY <2>1, <2>3
  <2> QED
    BY ONLY IInv, <2>1, <2>3, <2>4, ConnectionsEnd
<1>3. CASE ApiStops
  <2>1. Dropped(Streams) /\ UNCHANGED <<page, view, lines>>
    BY <1>3 DEF ApiStops
  <2>2. /\ phase' \in [Streams -> Phases]
        /\ \A j \in Streams : \/ phase'[j] = phase[j]
                              \/ phase[j] \in {"accepted", "open"} /\ phase'[j] = "closing"
    BY <1>3 DEF ApiStops, IInv, PageOK, Phases
  <2> QED
    BY ONLY IInv, <2>1, <2>2, ConnectionsEnd
<1>4. ASSUME NEW s \in Servers, Broadcast(s) PROVE IInv'
  BY <1>4, BroadcastInv
<1>5. ASSUME NEW s \in Servers, Switch(s) PROVE IInv'
  BY <1>5, PageInv
<1>6. CASE Leave
  BY <1>6, PageInv
<1>7. CASE UNCHANGED <<page, phase, view, hubs, lines>>
  BY <1>7, LinesKept
     DEF IInv, PageOK, LinesOK, StreamsInv, OpenIsReal, page, view, hubs
<1>8. CASE ApiStarts \/ Expire \/ (\E s \in Servers : LoseRight(s)) \/ UNCHANGED vars
  BY <1>7, <1>8 DEF ApiStarts, Expire, LoseRight, vars, world
<1> QED
  BY <1>1, <1>2, <1>3, <1>4, <1>5, <1>6, <1>8 DEF Next

\* The invariant holds of every behaviour.
LEMMA AlwaysIInv == Spec => []IInv
BY InitIInv, NextIInv, PTL DEF Spec

\* At most one socket of a page is connecting or open, or waits to
\* connect, and it is the one of the server shown (the disposer of
\* apps/web/src/lib/ws-client.ts), however many servers the operator tries.
THEOREM OnlyOneStream == Spec => []OneStream
<1>1. IInv => OneStream
  BY OnlyCur DEF IInv, OneStream
<1> QED
  BY <1>1, AlwaysIInv, PTL

\* The status pill of the console says CONNECTED only on the strength
\* of the stream of the server shown, for any number of servers and breaks.
THEOREM OpenTellsTrue == Spec => []OpenIsReal
<1>1. IInv => OpenIsReal
  BY DEF IInv
<1> QED
  BY <1>1, AlwaysIInv, PTL

\* The lines of the console are of the server it shows, in the order
\* they were broadcast and none twice, for any number of servers, streams,
\* lines and breaks.
THEOREM LogIsInOrder == Spec => []ShownInOrder
<1>1. IInv => ShownInOrder
  <2> SUFFICES ASSUME IInv PROVE ShownInOrder
    OBVIOUS
  <2>1. Rising(shown, active, lines) /\ Len(shown) \in Nat
    BY DEF IInv, LinesInv, LinesOK
  <2>2. \A i \in 1..Len(shown) - 1 : i \in 1..Len(shown) /\ i + 1 \in 1..Len(shown) /\ i < i + 1
    BY <2>1
  <2> QED
    BY <2>1, <2>2 DEF Rising, ShownInOrder
<1> QED
  BY <1>1, AlwaysIInv, PTL

-----------------------------------------------------------------------------
(* The local runner *)


RunnerTypes ==
  /\ record \in Status /\ local \in Status \ {"ERROR"}
  /\ handle \in Pids \cup {None}
  /\ proc \in [Pids -> {"none", "up", "gone", "seen"}]
  /\ mine \subseteq Pids /\ told \subseteq Pids /\ killed \subseteq Pids
  /\ timers \subseteq Pids /\ exposed \subseteq Pids
  /\ cleared \in BOOLEAN /\ bypassed \in BOOLEAN

\* A runner that is OFFLINE has nothing in the handle it could use.
OfflineIsEmpty == local = "OFFLINE" => ~Usable

\* What was spawned, told, killed or exposed exists; what is held was not told.
Spawned ==
  /\ \A p \in mine \cup told \cup killed \cup exposed : proc[p] # "none"
  /\ handle # None => proc[handle] # "none" /\ handle \notin told

\* While a timer is pending, a process that can be used was spawned since.
TimerInv == timers # {} /\ Usable => handle \in exposed

RunnerInv ==
  /\ RunnerTypes
  /\ OfflineIsEmpty
  /\ Spawned
  /\ TimerInv
  /\ UntoldIsHeld
  /\ OfflineIsStopped
  /\ KillHasCause

\* The initial states satisfy the invariant.
LEMMA InitRunnerInv == RunnerInit => RunnerInv
BY LocalHostAssumption
   DEF RunnerInit, RunnerInv, RunnerTypes, Status, OfflineIsEmpty, Usable, Spawned, TimerInv, UntoldIsHeld,
       OfflineIsStopped, KillHasCause, Up, Pids

-----------------------------------------------------------------------------
(* What the steps do *)

\* A process is spawned and held.
Spawns(p) ==
  /\ ~AlreadyUp
  /\ p \in Pids /\ proc[p] = "none"
  /\ record' = "ONLINE" /\ local' = "ONLINE"
  /\ handle' = p
  /\ proc' = [proc EXCEPT ![p] = "up"]
  /\ mine' = mine \cup {p}
  /\ exposed' = IF timers # {} THEN exposed \cup {p} ELSE exposed
  /\ UNCHANGED <<told, killed, timers, cleared, bypassed>>

\* Only the status changes; OFFLINE is recorded beside a process of the runner only
\* when that is noted.
Writes(recorded) ==
  /\ record' = recorded
  /\ local' \in {local, "ONLINE"}
  /\ record' = "OFFLINE" => record = "OFFLINE" \/ bypassed' \/ Up \cap mine = {}
  /\ bypassed => bypassed'
  /\ bypassed' \in BOOLEAN
  /\ UNCHANGED <<handle, proc, mine, told, killed, timers, cleared, exposed>>

\* Every step does one of these things.
LEMMA Moves ==
  ASSUME RunnerTypes, [RunnerNext]_runnerVars
  PROVE  \/ \E p \in Pids : Spawns(p)
         \/ \E recorded \in Status : Writes(recorded)
         \/ LocalStop
         \/ \E p \in Pids : Die(p) \/ ExitHandler(p)
         \/ TimerFires
         \/ ApiRestarts
<1>1. ASSUME LocalStart PROVE (\E p \in Pids : Spawns(p)) \/ Writes("ONLINE")
  BY <1>1 DEF LocalStart, Spawns, Writes, RunnerTypes
<1>2. "ONLINE" \in Status /\ "OFFLINE" \in Status /\ "ERROR" \in Status
  BY DEF Status
<1>3. ASSUME UNCHANGED <<state, cleared, exposed, bypassed>> PROVE record \in Status /\ Writes(record)
  BY <1>3 DEF state, Writes, RunnerTypes
<1>4. ASSUME NEW recorded \in Status, Recorded(recorded) PROVE Writes(recorded)
  BY <1>4 DEF Recorded, Writes, RunnerTypes
<1>5. ASSUME NEW q \in Requests, NEW a, power(q, a)
      PROVE  LocalStart \/ LocalStop \/ UNCHANGED <<state, cleared, exposed, bypassed>>
  BY <1>5 DEF power, AskAgent, StartHere, StopHere, RestartStops
<1>6. ASSUME NEW q \in Requests, ControlRoute(q) \/ StopAll(q)
      PROVE  LocalStart \/ LocalStop \/ UNCHANGED <<state, cleared, exposed, bypassed>>
  <2>1. CASE StopAll(q) \/ PowerRoute(q)
    BY <1>5, <2>1 DEF StopAll, PowerRoute
  <2>2. CASE RconRoute
    BY <2>2 DEF RconRoute, ConsoleStop, StopHere
  <2> QED
    BY <1>6, <2>1, <2>2 DEF ControlRoute
<1>7. ASSUME NEW q \in Requests, RestartStarts(q) PROVE LocalStart
  BY <1>7 DEF RestartStarts
<1>8. ASSUME NEW q \in Requests, NEW ok \in BOOLEAN, AgentAnswers(q, ok)
      PROVE  \E recorded \in Status : Writes(recorded)
  <2>1. (IF ~ok THEN record ELSE IF waiting[q] = "STOP" THEN "OFFLINE" ELSE "ONLINE") \in Status
    BY DEF RunnerTypes, Status
  <2> QED
    BY <1>4, <1>8, <2>1 DEF AgentAnswers
<1>9. ASSUME NEW q \in Requests, StopAllAnswered(q) PROVE Writes("OFFLINE")
  BY <1>2, <1>4, <1>9 DEF StopAllAnswered
<1>10. ASSUME NEW q \in Requests,
              AgentSilent(q) \/ StatusRoute(q) \/ Ping(q, "BROADCAST")
       PROVE  UNCHANGED <<state, cleared, exposed, bypassed>>
  BY <1>10 DEF AgentSilent, StatusRoute, Ping
<1>11. ASSUME NEW q \in Requests, StatusReturns(q) PROVE Writes("ONLINE")
  BY <1>11 DEF StatusReturns, Writes, RunnerTypes
<1>12. ASSUME NEW q \in Requests, BroadcasterReturns(q) PROVE Writes("ONLINE")
  BY <1>2, <1>4, <1>12 DEF BroadcasterReturns
<1>13. ASSUME CrashRecorded PROVE Writes("ERROR")
  BY <1>2, <1>4, <1>13 DEF CrashRecorded
<1>16. ASSUME DeleteRoute PROVE Writes("OFFLINE")
  BY <1>2, <1>4, <1>16 DEF DeleteRoute
<1>14. ASSUME NEW q \in Requests, RouteRejects(q) PROVE ApiRestarts
  BY <1>14 DEF RouteRejects
<1>15. ASSUME AgentChanges \/ UNCHANGED runnerVars
       PROVE  UNCHANGED <<state, cleared, exposed, bypassed>>
  BY <1>15 DEF AgentChanges, runnerVars, state
<1> QED
  BY <1>1, <1>2, <1>3, <1>6, <1>7, <1>8, <1>9, <1>10, <1>11, <1>12, <1>13, <1>14, <1>15, <1>16
     DEF RunnerNext

-----------------------------------------------------------------------------
(* The invariant *)

\* A process that is spawned is held, and the one whose handle it takes was told or
\* killed.
LEMMA SpawnStep == ASSUME RunnerInv, NEW p \in Pids, Spawns(p) PROVE RunnerInv'
<1>0. /\ RunnerTypes /\ OfflineIsEmpty /\ Spawned /\ TimerInv
      /\ UntoldIsHeld /\ OfflineIsStopped /\ KillHasCause
  BY DEF RunnerInv
<1>1. p # None /\ p \notin mine \cup told \cup killed \cup exposed
  BY <1>0, LocalHostAssumption DEF Spawns, Spawned, Pids
<1>2. RunnerTypes'
  BY <1>0 DEF Spawns, RunnerTypes, Status
<1>3. OfflineIsEmpty' /\ TimerInv'
  BY DEF Spawns, OfflineIsEmpty, TimerInv
<1>4. Spawned'
  BY <1>0, <1>1 DEF Spawns, Spawned, RunnerTypes
<1>5. ~Usable
  BY <1>0 DEF Spawns, AlreadyUp, OfflineIsEmpty, RunnerTypes, Status
<1>6. Up' = Up \cup {p}
  BY <1>0 DEF Spawns, Up, RunnerTypes
<1>7. UntoldIsHeld' /\ OfflineIsStopped'
  <2>1. OfflineIsStopped'
    BY DEF Spawns, OfflineIsStopped
  <2>2. ASSUME ~cleared, NEW o \in Up \cap mine, o \notin told \cup killed PROVE FALSE
    <3>1. o = handle /\ o \in Pids
      BY <1>0, <2>2 DEF UntoldIsHeld, Up
    <3> QED
      BY <1>5, <2>2, <3>1, LocalHostAssumption DEF Usable, Pids
  <2>3. UntoldIsHeld'
    BY <1>6, <2>2 DEF Spawns, UntoldIsHeld
  <2> QED
    BY <2>1, <2>3
<1>8. KillHasCause'
  BY <1>0 DEF Spawns, KillHasCause
<1> QED
  BY <1>2, <1>3, <1>4, <1>7, <1>8 DEF RunnerInv

\* A status is written.
LEMMA WriteStep == ASSUME RunnerInv, NEW recorded \in Status, Writes(recorded) PROVE RunnerInv'
<1>0. /\ RunnerTypes /\ OfflineIsEmpty /\ Spawned /\ TimerInv
      /\ UntoldIsHeld /\ OfflineIsStopped /\ KillHasCause
  BY DEF RunnerInv
<1>1. RunnerTypes'
  BY <1>0 DEF Writes, RunnerTypes, Status
<1>2. OfflineIsEmpty' /\ TimerInv'
  BY <1>0 DEF Writes, OfflineIsEmpty, TimerInv, Usable
<1>3. Spawned'
  BY <1>0 DEF Writes, Spawned
<1>4. UntoldIsHeld' /\ OfflineIsStopped'
  BY <1>0 DEF Writes, UntoldIsHeld, OfflineIsStopped, Up
<1>5. KillHasCause'
  BY <1>0 DEF Writes, KillHasCause
<1> QED
  BY <1>1, <1>2, <1>3, <1>4, <1>5 DEF RunnerInv

\* A server is stopped: what was held is told, and everything else was.
LEMMA StopStep == ASSUME RunnerInv, LocalStop PROVE RunnerInv'
<1>0. /\ RunnerTypes /\ OfflineIsEmpty /\ Spawned /\ TimerInv
      /\ UntoldIsHeld /\ OfflineIsStopped /\ KillHasCause
  BY DEF RunnerInv
<1>1. UNCHANGED <<proc, mine, killed, cleared, exposed, bypassed>>
      /\ local' = "OFFLINE" /\ record' = "OFFLINE"
  BY DEF LocalStop
<1>2. CASE Usable
  <2>1. told' = told \cup {handle} /\ timers' = timers \cup {handle} /\ handle' = None
    BY <1>2 DEF LocalStop
  <2>2. handle \in Pids /\ handle \notin killed
    BY <1>0, <1>2 DEF Usable, RunnerTypes
  <2>3. RunnerTypes'
    BY <1>0, <1>1, <2>1, <2>2 DEF RunnerTypes, Status
  <2>4. OfflineIsEmpty' /\ TimerInv'
    BY <2>1 DEF OfflineIsEmpty, TimerInv, Usable
  <2>5. Spawned'
    <3>1. proc[handle] # "none"
      BY <1>0, <1>2 DEF Spawned, Usable
    <3> QED
      BY <1>0, <1>1, <2>1, <3>1 DEF Spawned
  <2>6. UntoldIsHeld' /\ OfflineIsStopped'
    BY <1>0, <1>1, <2>1 DEF UntoldIsHeld, OfflineIsStopped, Up
  <2>7. KillHasCause'
    BY <1>0, <1>1, <2>1, <2>2 DEF KillHasCause
  <2> QED
    BY <2>3, <2>4, <2>5, <2>6, <2>7 DEF RunnerInv
<1>3. CASE ~Usable
  <2>1. UNCHANGED <<told, timers, handle>>
    BY <1>3 DEF LocalStop
  <2>2. RunnerTypes'
    BY <1>0, <1>1, <2>1 DEF RunnerTypes, Status
  <2>3. OfflineIsEmpty' /\ TimerInv'
    BY <1>1, <1>3, <2>1 DEF OfflineIsEmpty, TimerInv, Usable
  <2>4. Spawned'
    BY <1>0, <1>1, <2>1 DEF Spawned
  <2>5. UntoldIsHeld' /\ OfflineIsStopped'
    BY <1>0, <1>1, <1>3, <2>1, LocalHostAssumption
       DEF UntoldIsHeld, OfflineIsStopped, Up, Usable, Pids
  <2>6. KillHasCause'
    BY <1>0, <1>1, <2>1 DEF KillHasCause
  <2> QED
    BY <2>2, <2>3, <2>4, <2>5, <2>6 DEF RunnerInv
<1> QED
  BY <1>2, <1>3

\* A process ends.
LEMMA DieStep == ASSUME RunnerInv, NEW p \in Pids, Die(p) PROVE RunnerInv'
<1>0. /\ RunnerTypes /\ OfflineIsEmpty /\ Spawned /\ TimerInv
      /\ UntoldIsHeld /\ OfflineIsStopped /\ KillHasCause
  BY DEF RunnerInv
<1>1. PICK v \in {"gone", "seen"} : proc' = [proc EXCEPT ![p] = v]
  BY DEF Die
<1>2. UNCHANGED <<record, local, handle, mine, told, killed, timers, cleared, exposed, bypassed>>
  BY DEF Die
<1>3. RunnerTypes'
  BY <1>0, <1>1, <1>2 DEF RunnerTypes
<1>4. OfflineIsEmpty' /\ TimerInv' /\ KillHasCause'
  BY <1>0, <1>2 DEF OfflineIsEmpty, TimerInv, KillHasCause, Usable
<1>5. Spawned'
  BY <1>0, <1>1, <1>2 DEF Spawned, RunnerTypes
<1>6. Up' \subseteq Up
  BY <1>0, <1>1 DEF Up, RunnerTypes
<1>7. UntoldIsHeld' /\ OfflineIsStopped'
  BY <1>0, <1>2, <1>6 DEF UntoldIsHeld, OfflineIsStopped
<1> QED
  BY <1>3, <1>4, <1>5, <1>7 DEF RunnerInv

\* The exit of a process is handled: it is the held one, or that is noted.
LEMMA ExitStep == ASSUME RunnerInv, NEW p \in Pids, ExitHandler(p) PROVE RunnerInv'
<1>0. /\ RunnerTypes /\ OfflineIsEmpty /\ Spawned /\ TimerInv
      /\ UntoldIsHeld /\ OfflineIsStopped /\ KillHasCause
  BY DEF RunnerInv
<1>1. /\ proc[p] = "gone" /\ proc' = [proc EXCEPT ![p] = "seen"]
      /\ record' = "OFFLINE" /\ local' = "OFFLINE" /\ handle' = None
      /\ UNCHANGED <<mine, told, killed, timers, exposed, bypassed>>
  BY DEF ExitHandler
<1>2. cleared' \in BOOLEAN /\ (~cleared' => ~cleared /\ handle \in {None, p})
  BY <1>0 DEF ExitHandler, RunnerTypes
<1>3. RunnerTypes'
  BY <1>0, <1>1, <1>2 DEF RunnerTypes, Status
<1>4. OfflineIsEmpty' /\ TimerInv' /\ KillHasCause'
  BY <1>0, <1>1 DEF OfflineIsEmpty, TimerInv, KillHasCause, Usable
<1>5. Spawned'
  BY <1>0, <1>1 DEF Spawned, RunnerTypes
<1>6. Up' = Up /\ p \notin Up
  BY <1>0, <1>1 DEF Up, RunnerTypes
<1>7. ~cleared' => Up \cap mine \subseteq told \cup killed
  BY <1>0, <1>2, <1>6, LocalHostAssumption DEF UntoldIsHeld, Up, Pids
<1>8. UntoldIsHeld' /\ OfflineIsStopped'
  BY <1>1, <1>6, <1>7 DEF UntoldIsHeld, OfflineIsStopped
<1> QED
  BY <1>3, <1>4, <1>5, <1>8 DEF RunnerInv

\* A timer fires: what it kills was spawned while it was pending.
LEMMA TimerStep == ASSUME RunnerInv, TimerFires PROVE RunnerInv'
<1>0. /\ RunnerTypes /\ OfflineIsEmpty /\ Spawned /\ TimerInv
      /\ UntoldIsHeld /\ OfflineIsStopped /\ KillHasCause
  BY DEF RunnerInv
<1>1. timers # {} /\ timers' \subseteq timers
  BY DEF TimerFires
<1>2. UNCHANGED <<record, local, handle, proc, mine, told, cleared, exposed, bypassed>>
  BY DEF TimerFires
<1>3. \/ killed' = killed
      \/ Usable /\ handle \in Pids /\ handle \in Up /\ killed' = killed \cup {handle}
  BY <1>0 DEF TimerFires, Usable, RunnerTypes
<1>4. RunnerTypes'
  BY <1>0, <1>1, <1>2, <1>3 DEF RunnerTypes
<1>5. Usable' => Usable
  BY <1>2, <1>3 DEF Usable
<1>6. OfflineIsEmpty' /\ TimerInv'
  BY <1>0, <1>1, <1>2, <1>5 DEF OfflineIsEmpty, TimerInv
<1>7. Spawned'
  BY <1>0, <1>2, <1>3 DEF Spawned, Usable
<1>8. UntoldIsHeld' /\ OfflineIsStopped'
  BY <1>0, <1>2, <1>3 DEF UntoldIsHeld, OfflineIsStopped, Up
<1>9. KillHasCause'
  BY <1>0, <1>1, <1>2, <1>3 DEF KillHasCause, TimerInv, Spawned, Usable
<1> QED
  BY <1>4, <1>6, <1>7, <1>8, <1>9 DEF RunnerInv

\* The API starts again: its processes are nobody's any more.
LEMMA RestartStep == ASSUME RunnerInv, ApiRestarts PROVE RunnerInv'
<1>0. /\ RunnerTypes /\ OfflineIsEmpty /\ Spawned /\ KillHasCause
  BY DEF RunnerInv
<1>1. /\ local' = "OFFLINE" /\ handle' = None /\ mine' = {} /\ timers' = {}
      /\ UNCHANGED <<record, told, killed, cleared, exposed, bypassed>>
  BY DEF ApiRestarts
<1>2. proc' = [o \in Pids |-> IF proc[o] = "gone" THEN "seen" ELSE proc[o]]
  BY DEF ApiRestarts
<1>3. RunnerTypes'
  BY <1>0, <1>1, <1>2 DEF RunnerTypes, Status
<1>4. OfflineIsEmpty' /\ TimerInv' /\ UntoldIsHeld' /\ OfflineIsStopped' /\ KillHasCause'
  BY <1>0, <1>1
     DEF OfflineIsEmpty, TimerInv, UntoldIsHeld, OfflineIsStopped, KillHasCause, Usable
<1>5. Spawned'
  BY <1>0, <1>1, <1>2 DEF Spawned, RunnerTypes
<1> QED
  BY <1>3, <1>4, <1>5 DEF RunnerInv

-----------------------------------------------------------------------------
(* Theorems *)

\* The invariant holds in every reachable state.
THEOREM LocalInvariant == RunnerSpec => []RunnerInv
<1>1. RunnerInv /\ [RunnerNext]_runnerVars => RunnerInv'
  <2>1. RunnerInv => RunnerTypes
    BY DEF RunnerInv
  <2> QED
    BY <2>1, Moves, SpawnStep, WriteStep, StopStep, DieStep, ExitStep, TimerStep, RestartStep
<1> QED
  BY <1>1, InitRunnerInv, PTL DEF RunnerSpec

\* However starts, stops, exits, timers and answers of the agent fall, the runner
\* holds every process it was not told to end.
THEOREM RunnerHolds == RunnerSpec => []UntoldIsHeld
BY LocalInvariant, PTL DEF RunnerInv

\* A server recorded OFFLINE has no process of the runner that was left alone.
THEOREM OfflineMeansStopped == RunnerSpec => []OfflineIsStopped
BY LocalInvariant, PTL DEF RunnerInv

\* A timer kills nothing but what was spawned while it was pending.
THEOREM TimersKillTheWrongOne == RunnerSpec => []KillHasCause
BY LocalInvariant, PTL DEF RunnerInv

-----------------------------------------------------------------------------
(* The pages *)

\* The requests that may yet change something.
Coming == {k \in Slots : asks[k].step \in {"asking", "sent"}}

\* What was read for the page is no older than what it must show; a first load
\* marks no button, and nothing belongs to the login page.
RequestOK(a) ==
  /\ a.step = "entering" => a.buttons = {}
  /\ open = "login" => ~a.mounted
  /\ a.promise <= present
  /\ a.step = "read" /\ a.mounted => a.version >= promised /\ a.version >= a.promise

PagesInv ==
  /\ PagesTypeOK
  /\ present + Cardinality(Coming) <= MaxChanges
  /\ promised <= present
  /\ \A k \in Slots : RequestOK(asks[k])
  /\ ActionIsShown
  /\ ButtonsAreTrue

\* Every page is made of deeds, and is about subjects or about everything.
LEMMA SiteIsMadeOf ==
  ASSUME NEW p \in PageNames
  PROVE  /\ site[p].about \subseteq Subjects \cup {NoSubject}
         /\ site[p].enters \in BOOLEAN
         /\ \A d \in site[p].deeds : d.buttons \in ButtonSets /\ d.reload \in BOOLEAN
<1> DEFINE Made(r) ==
      /\ r.about \subseteq Subjects \cup {NoSubject}
      /\ r.enters \in BOOLEAN
      /\ \A d \in r.deeds : d.buttons \in ButtonSets /\ d.reload \in BOOLEAN
<1>1. \A bs \in ButtonSets, b \in BOOLEAN :
        Deed(bs, b).buttons \in ButtonSets /\ Deed(bs, b).reload \in BOOLEAN
  BY DEF Deed
<1>2. {} \in ButtonSets /\ Subjects \in ButtonSets /\ {"form"} \in ButtonSets
      /\ {"page"} \in ButtonSets
  BY DEF ButtonSets
<1>3. Made(Dashboard) /\ Made(Worlds) /\ Made(Settings)
  BY <1>1, <1>2 DEF Dashboard, Worlds, Settings, SaveRealm, DeleteUser, AddUser, EmergencyStop
<1>4. Made(ServerOpsRoom) /\ Made(Diagnostics) /\ Made(PlayersList)
  BY <1>1, <1>2 DEF ServerOpsRoom, Diagnostics, PlayersList
<1>5. Made(PlayerProfile) /\ Made(Plugins) /\ Made(SetupWizard)
  BY <1>1, <1>2 DEF PlayerProfile, Plugins, SetupWizard
<1> HIDE DEF Made
<1>6. Made(site[p])
  BY <1>3, <1>4, <1>5 DEF site, PageNames
<1> QED
  BY <1>6 DEF Made

\* A new request, and none.
LEMMA AskFields ==
  ASSUME NEW step \in Steps, NEW d, d.buttons \in ButtonSets, d.reload \in BOOLEAN,
         NEW s \in Subjects \cup {NoSubject}
  PROVE  /\ Ask(step, d, s) \in Asks
         /\ Ask(step, d, s).step = step /\ Ask(step, d, s).buttons = d.buttons
         /\ Ask(step, d, s).promise = 0 /\ Ask(step, d, s).version = 0
         /\ Ask(step, d, s).mounted
BY PagesAssumption DEF Ask, Asks, Versions

LEMMA LoadFields ==
  ASSUME NEW step \in Steps, NEW s \in Subjects \cup {NoSubject}
  PROVE  /\ Load(step, s) \in Asks
         /\ Load(step, s).step = step /\ Load(step, s).buttons = {}
         /\ Load(step, s).promise = 0 /\ Load(step, s).mounted
<1> DEFINE d == Deed({}, FALSE)
<1>1. d.buttons = {} /\ d.reload = FALSE
  BY DEF Deed
<1>2. d.buttons \in ButtonSets /\ d.reload \in BOOLEAN
  BY <1>1 DEF ButtonSets
<1> HIDE DEF d
<1>3. /\ Ask(step, d, s) \in Asks
      /\ Ask(step, d, s).step = step /\ Ask(step, d, s).buttons = d.buttons
      /\ Ask(step, d, s).promise = 0 /\ Ask(step, d, s).mounted
  BY <1>2, AskFields
<1>4. Load(step, s) = Ask(step, d, s)
  BY DEF Load, d
<1> QED
  BY <1>1, <1>3, <1>4

LEMMA FreeFields ==
  /\ Free \in Asks /\ Free.step = "free" /\ Free.buttons = {}
  /\ Free.promise = 0 /\ ~Free.mounted
<1>1. "free" \in Steps
  BY DEF Steps
<1>2. /\ Load("free", NoSubject) \in Asks /\ Load("free", NoSubject).step = "free"
      /\ Load("free", NoSubject).promise = 0 /\ Load("free", NoSubject).buttons = {}
  BY <1>1, LoadFields
<1> QED
  BY <1>2 DEF Free, Asks

\* One request changes.
LEMMA OneRequest ==
  ASSUME asks \in [Slots -> Asks], NEW k \in Slots, NEW a \in Asks,
         asks' = [asks EXCEPT ![k] = a]
  PROVE  /\ asks' \in [Slots -> Asks] /\ asks'[k] = a
         /\ \A j \in Slots \ {k} : asks'[j] = asks[j]
         /\ IsFiniteSet(Coming) /\ Cardinality(Coming) \in Nat
         /\ Cardinality(Coming') \in Nat
         /\ Cardinality(Coming') =
              Cardinality(Coming) - (IF asks[k].step \in {"asking", "sent"} THEN 1 ELSE 0)
                                  + (IF a.step \in {"asking", "sent"} THEN 1 ELSE 0)
<1> DEFINE C(b) == b.step \in {"asking", "sent"}
<1>1. /\ asks' \in [Slots -> Asks] /\ asks'[k] = a
      /\ \A j \in Slots \ {k} : asks'[j] = asks[j]
  OBVIOUS
<1>2. IsFiniteSet(Coming) /\ Cardinality(Coming) \in Nat
  BY FS_Subset, FS_CardinalityType, PagesAssumption DEF Coming
<1>3. Coming' = IF C(a) THEN Coming \cup {k} ELSE Coming \ {k}
  BY <1>1 DEF Coming
<1>4. k \in Coming <=> C(asks[k])
  BY DEF Coming
<1>5. /\ Cardinality(Coming \cup {k}) = IF k \in Coming THEN Cardinality(Coming)
                                        ELSE Cardinality(Coming) + 1
      /\ Cardinality(Coming \ {k}) = IF k \in Coming THEN Cardinality(Coming) - 1
                                     ELSE Cardinality(Coming)
  BY <1>2, FS_AddElement, FS_RemoveElement
<1>6. IsFiniteSet(Coming') /\ Cardinality(Coming') \in Nat
  BY <1>2, <1>3, FS_AddElement, FS_RemoveElement, FS_CardinalityType
<1> QED
  BY <1>1, <1>2, <1>3, <1>4, <1>5, <1>6

\* Requests end or stay as far from a change as they were.
LEMMA NoMoreComing ==
  ASSUME asks \in [Slots -> Asks],
         \A j \in Slots : asks'[j].step \in {"asking", "sent"} => asks[j].step \in {"asking", "sent"}
  PROVE  /\ Cardinality(Coming) \in Nat /\ Cardinality(Coming') \in Nat
         /\ Cardinality(Coming') <= Cardinality(Coming)
<1>1. Coming' \subseteq Coming
  BY DEF Coming
<1>2. IsFiniteSet(Coming)
  BY FS_Subset, PagesAssumption DEF Coming
<1> QED
  BY <1>1, <1>2, FS_Subset, FS_CardinalityType

\* The requests of a page that was left.
LEMMA UnmountedFields ==
  ASSUME asks \in [Slots -> Asks]
  PROVE  /\ Unmounted \in [Slots -> Asks]
         /\ \A k \in Slots :
              /\ ~Unmounted[k].mounted /\ Unmounted[k].promise = 0
              /\ Unmounted[k].buttons = {}
              /\ Unmounted[k].step \in {asks[k].step, "free"}
<1> SUFFICES ASSUME NEW k \in Slots
             PROVE  /\ Unmounted[k] \in Asks
                    /\ ~Unmounted[k].mounted /\ Unmounted[k].promise = 0
                    /\ Unmounted[k].buttons = {}
                    /\ Unmounted[k].step \in {asks[k].step, "free"}
  BY DEF Unmounted
<1> DEFINE a == asks[k]
           m == [Free EXCEPT !.step = a.step, !.reload = a.reload]
<1>1. a.step \in Steps /\ a.reload \in BOOLEAN
  BY DEF Asks
<1>2. Unmounted[k] = IF a.step = "entering" THEN Free ELSE m
  BY DEF Unmounted
<1>3. m \in Asks /\ m.step = a.step /\ ~m.mounted /\ m.promise = 0 /\ m.buttons = {}
  BY <1>1, FreeFields DEF Asks
<1> QED
  BY <1>2, <1>3, FreeFields

\* The page is gone: nothing is shown, marked or waited for.
LEMMA PageIsGone ==
  ASSUME PagesInv, asks' \in [Slots -> Asks],
         \A j \in Slots : /\ ~asks'[j].mounted /\ asks'[j].promise <= present
                          /\ asks'[j].step = "entering" => asks'[j].buttons = {}
                          /\ asks'[j].step \in {asks[j].step, "free"},
         open' = "login", picture' = Blank, busy' = {}, signedIn' \in BOOLEAN,
         fails' \in 0..MaxFails, UNCHANGED <<subject, auto, present, promised, moves>>
  PROVE  PagesInv'
<1>1. PagesTypeOK'
  BY PagesAssumption DEF PagesInv, PagesTypeOK, Blank, Versions
<1>2. (present + Cardinality(Coming) <= MaxChanges)'
  <2>1. Cardinality(Coming') <= Cardinality(Coming)
        /\ Cardinality(Coming) \in Nat /\ Cardinality(Coming') \in Nat
    <3>1. asks \in [Slots -> Asks]
      BY DEF PagesInv, PagesTypeOK
    <3> QED
      BY <3>1, NoMoreComing
  <2> QED
    BY <2>1, PagesAssumption DEF PagesInv, PagesTypeOK, Versions
<1>3. (\A j \in Slots : RequestOK(asks[j]))'
  BY DEF PagesInv, RequestOK
<1>4. ButtonsAreTrue'
  BY DEF ButtonsAreTrue, Marks
<1> QED
  BY <1>1, <1>2, <1>3, <1>4 DEF PagesInv, ActionIsShown

\* A page opens.
LEMMA MountInv ==
  ASSUME PagesInv, NEW p \in PageNames, Mount(p), signedIn' \in BOOLEAN,
         moves' \in 0..MaxMoves, UNCHANGED <<present, promised, fails>>
  PROVE  PagesInv'
<1>1. PICK s \in Opening(p), k \in Slots :
        /\ open' = p /\ subject' = s /\ picture' = Blank /\ busy' = {} /\ auto' = TRUE
        /\ Unmounted[k] = Free
        /\ asks' = [Unmounted EXCEPT ![k] = FirstLoad(p, s)]
  BY DEF Mount
<1> DEFINE a == FirstLoad(p, s)
<1>2. asks \in [Slots -> Asks]
  BY DEF PagesInv, PagesTypeOK
<1>3. /\ Unmounted \in [Slots -> Asks]
      /\ \A j \in Slots :
           /\ ~Unmounted[j].mounted /\ Unmounted[j].promise = 0
           /\ Unmounted[j].buttons = {}
           /\ Unmounted[j].step \in {asks[j].step, "free"}
  BY <1>2, UnmountedFields
<1>4. s \in Subjects \cup {NoSubject}
  BY SiteIsMadeOf DEF Opening
<1>5. /\ a \in Asks /\ a.step \in {"entering", "checking"} /\ a.buttons = {}
      /\ a.promise = 0 /\ a.mounted
  BY <1>4, LoadFields DEF FirstLoad, Steps
<1> HIDE DEF a
<1>6. /\ asks' \in [Slots -> Asks] /\ asks'[k] = a
      /\ \A j \in Slots \ {k} : asks'[j] = Unmounted[j]
  BY <1>1, <1>3, <1>5 DEF a
<1>7. PagesTypeOK'
  BY <1>1, <1>4, <1>6, PagesAssumption DEF PagesInv, PagesTypeOK, Blank, Versions
<1>8. (present + Cardinality(Coming) <= MaxChanges)'
  <2>1. \A j \in Slots :
          asks'[j].step \in {"asking", "sent"} => asks[j].step \in {"asking", "sent"}
    <3> SUFFICES ASSUME NEW j \in Slots, asks'[j].step \in {"asking", "sent"}
                 PROVE  asks[j].step \in {"asking", "sent"}
      OBVIOUS
    <3>1. j # k
      BY <1>5, <1>6
    <3>2. asks'[j].step \in {asks[j].step, "free"}
      BY <1>3, <1>6, <3>1
    <3> QED
      BY <3>2
  <2>2. Cardinality(Coming') <= Cardinality(Coming)
        /\ Cardinality(Coming) \in Nat /\ Cardinality(Coming') \in Nat
    BY <1>2, <2>1, NoMoreComing
  <2> QED
    BY <2>2, PagesAssumption DEF PagesInv, PagesTypeOK, Versions
<1>9. (\A j \in Slots : RequestOK(asks[j]))'
  <2> SUFFICES ASSUME NEW j \in Slots PROVE RequestOK(asks[j])'
    OBVIOUS
  <2>1. present \in Nat /\ open' # "login"
    BY <1>1 DEF PagesInv, PagesTypeOK, Versions, PageNames
  <2>2. CASE j = k
    BY <1>5, <1>6, <2>1, <2>2 DEF RequestOK
  <2>3. CASE j # k
    BY <1>3, <1>6, <2>1, <2>3 DEF RequestOK
  <2> QED
    BY <2>2, <2>3
<1>10. ButtonsAreTrue'
  <2>1. \A j \in Slots : asks'[j].buttons = {}
    BY <1>3, <1>5, <1>6
  <2> QED
    BY <1>1, <2>1 DEF ButtonsAreTrue, Marks
<1> QED
  BY <1>1, <1>7, <1>8, <1>9, <1>10 DEF PagesInv, ActionIsShown

\* A load starts, while first loads that are given up may end.
LEMMA LoadStarts ==
  ASSUME PagesInv, NEW k \in Slots, NEW a \in Asks, NEW g \in [Slots -> Asks],
         a.step \in {"entering", "checking"}, a.buttons = {}, a.promise = 0, a.mounted,
         \A j \in Slots : g[j] = asks[j] \/ (g[j] = Free /\ asks[j].step = "entering"),
         g[k] = Free, asks' = [g EXCEPT ![k] = a], open # "login",
         subject' \in Subjects \cup {NoSubject}, moves' \in 0..MaxMoves,
         UNCHANGED <<open, picture, auto, busy, signedIn, present, promised, fails>>
  PROVE  PagesInv'
<1>1. /\ asks' \in [Slots -> Asks] /\ asks'[k] = a
      /\ \A j \in Slots \ {k} : asks'[j] = g[j]
  OBVIOUS
<1>2. asks \in [Slots -> Asks] /\ present \in Nat
  BY DEF PagesInv, PagesTypeOK, Versions
<1>3. PagesTypeOK'
  BY <1>1 DEF PagesInv, PagesTypeOK
<1>4. (present + Cardinality(Coming) <= MaxChanges)'
  <2>1. \A j \in Slots :
          asks'[j].step \in {"asking", "sent"} => asks[j].step \in {"asking", "sent"}
    BY <1>1, FreeFields
  <2>2. Cardinality(Coming') <= Cardinality(Coming)
        /\ Cardinality(Coming) \in Nat /\ Cardinality(Coming') \in Nat
    BY <1>2, <2>1, NoMoreComing
  <2> QED
    BY <1>2, <2>2, PagesAssumption DEF PagesInv
<1>5. (\A j \in Slots : RequestOK(asks[j]))'
  <2> SUFFICES ASSUME NEW j \in Slots PROVE RequestOK(asks[j])'
    OBVIOUS
  <2>1. CASE j = k
    BY <1>1, <1>2, <2>1 DEF RequestOK
  <2>2. CASE j # k /\ g[j] = Free
    BY <1>1, <1>2, <2>2, FreeFields DEF RequestOK
  <2>3. CASE j # k /\ g[j] = asks[j]
    BY <1>1, <2>3 DEF PagesInv, RequestOK
  <2> QED
    BY <2>1, <2>2, <2>3
<1>6. ButtonsAreTrue'
  <2>1. \A j \in Slots, bs \in {{"form"}, {"page"}} : Marks(j, bs)' <=> Marks(j, bs)
    <3> SUFFICES ASSUME NEW j \in Slots, NEW bs \in {{"form"}, {"page"}}
                 PROVE  Marks(j, bs)' <=> Marks(j, bs)
      OBVIOUS
    <3>1. CASE asks'[j] = asks[j]
      BY <3>1 DEF Marks
    <3>2. CASE asks'[j] # asks[j]
      <4>1. asks'[j].buttons = {}
        BY <1>1, <3>2, FreeFields
      <4>2. asks[j].buttons = {}
        BY <1>1, <3>2, FreeFields DEF PagesInv, RequestOK
      <4> QED
        BY <4>1, <4>2 DEF Marks
    <3> QED
      BY <3>1, <3>2
  <2>2. Subjects # {} => \A j \in Slots : Marks(j, Subjects) => Marks(j, Subjects)'
    <3> SUFFICES ASSUME Subjects # {}, NEW j \in Slots, Marks(j, Subjects)
                 PROVE  Marks(j, Subjects)'
      OBVIOUS
    <3>1. asks'[j] = asks[j]
      BY <1>1, FreeFields DEF PagesInv, RequestOK, Marks
    <3> QED
      BY <3>1 DEF Marks
  <2> QED
    BY <2>1, <2>2 DEF PagesInv, ButtonsAreTrue
<1> QED
  BY <1>3, <1>4, <1>5, <1>6 DEF PagesInv, ActionIsShown

\* A button is pressed.
LEMMA ActInv ==
  ASSUME PagesInv, NEW k \in Slots, NEW p \in PageNames, NEW d \in site[p].deeds,
         open = p, Act(k, d)
  PROVE  PagesInv'
<1> DEFINE a == Ask("asking", d, subject)
<1>1. /\ asks[k] = Free /\ asks' = [asks EXCEPT ![k] = a]
      /\ IF d.buttons = {} THEN busy' = busy
         ELSE \E b \in d.buttons \ busy : busy' = (busy \ d.buttons) \cup {b}
      /\ present + Cardinality(Coming) < MaxChanges
      /\ UNCHANGED <<shows, signedIn, present, promised, bounds>>
  BY DEF Act, Begun, Coming
<1>2. /\ asks \in [Slots -> Asks] /\ present \in Nat
      /\ d.buttons \in ButtonSets /\ d.reload \in BOOLEAN
      /\ subject \in Subjects \cup {NoSubject}
  BY SiteIsMadeOf DEF PagesInv, PagesTypeOK, Versions
<1>3. /\ a \in Asks /\ a.step = "asking" /\ a.buttons = d.buttons
      /\ a.promise = 0 /\ a.mounted
  BY <1>2, AskFields DEF Steps
<1> HIDE DEF a
<1>4. /\ asks' \in [Slots -> Asks] /\ asks'[k] = a
      /\ \A j \in Slots \ {k} : asks'[j] = asks[j]
      /\ Cardinality(Coming) \in Nat /\ Cardinality(Coming') = Cardinality(Coming) + 1
  <2>1. asks[k].step \notin {"asking", "sent"} /\ a.step \in {"asking", "sent"}
    BY <1>1, <1>3, FreeFields
  <2>2. asks' = [asks EXCEPT ![k] = a]
    BY <1>1
  <2>3. /\ asks' \in [Slots -> Asks] /\ asks'[k] = a
        /\ \A j \in Slots \ {k} : asks'[j] = asks[j]
        /\ Cardinality(Coming) \in Nat
        /\ Cardinality(Coming') =
             Cardinality(Coming) - (IF asks[k].step \in {"asking", "sent"} THEN 1 ELSE 0)
                                 + (IF a.step \in {"asking", "sent"} THEN 1 ELSE 0)
    BY <1>2, <1>3, <2>2, OneRequest
  <2> QED
    BY <2>1, <2>3
<1>5. PagesTypeOK'
  <2>1. busy' \subseteq Subjects \cup {"form", "page"}
    BY <1>1, <1>2 DEF PagesInv, PagesTypeOK, ButtonSets
  <2> QED
    BY <1>1, <1>4, <2>1 DEF PagesInv, PagesTypeOK, shows, bounds
<1>6. (present + Cardinality(Coming) <= MaxChanges)'
  BY <1>1, <1>2, <1>4, PagesAssumption
<1>7. (\A j \in Slots : RequestOK(asks[j]))'
  <2> SUFFICES ASSUME NEW j \in Slots PROVE RequestOK(asks[j])'
    OBVIOUS
  <2>1. open' # "login"
    BY <1>1 DEF shows, PageNames
  <2> QED
    BY <1>1, <1>2, <1>3, <1>4, <2>1 DEF PagesInv, RequestOK
<1>8. ButtonsAreTrue'
  <2>1. \A b \in {"form", "page"} : b \notin Subjects /\ Subjects # {b}
    BY PagesAssumption
  <2>2. \A j \in Slots \ {k} : \A bs : Marks(j, bs)' <=> Marks(j, bs)
    BY <1>4 DEF Marks
  <2>3. \A bs : (Marks(k, bs)' <=> d.buttons = bs) /\ ~Marks(k, bs)
    BY <1>1, <1>3, <1>4, FreeFields DEF Marks
  <2>4. ASSUME NEW b \in {"form", "page"}
        PROVE  /\ (b \in busy <=> \E j \in Slots : Marks(j, {b}))'
               /\ \A i, j \in Slots : Marks(i, {b})' /\ Marks(j, {b})' => i = j
    <3>1. /\ b \in busy <=> \E j \in Slots : Marks(j, {b})
          /\ \A i, j \in Slots : Marks(i, {b}) /\ Marks(j, {b}) => i = j
      BY DEF PagesInv, ButtonsAreTrue
    <3>2. CASE d.buttons = {b}
      <4>1. b \notin busy /\ b \in busy'
        BY <1>1, <3>2
      <4>2. Marks(k, {b})' /\ \A j \in Slots \ {k} : ~Marks(j, {b})'
        BY <2>2, <2>3, <3>1, <3>2, <4>1
      <4> QED
        BY <4>1, <4>2
    <3>3. CASE d.buttons # {b}
      <4>1. b \notin d.buttons
        BY <1>2, <2>1, <3>3 DEF ButtonSets
      <4>2. b \in busy' <=> b \in busy
        BY <1>1, <4>1
      <4>3. \A j \in Slots : Marks(j, {b})' <=> Marks(j, {b})
        BY <2>2, <2>3, <3>3
      <4> QED
        BY <3>1, <4>2, <4>3
    <3> QED
      BY <3>2, <3>3
  <2>5. (busy \cap Subjects # {} => \E j \in Slots : Marks(j, Subjects))'
    <3>1. CASE d.buttons = Subjects
      BY <2>3, <3>1
    <3>2. CASE d.buttons # Subjects
      <4>1. d.buttons \cap Subjects = {}
        BY <1>2, <2>1, <3>2 DEF ButtonSets
      <4>2. busy' \cap Subjects = busy \cap Subjects
        BY <1>1, <4>1
      <4>3. \A j \in Slots : Marks(j, Subjects) => Marks(j, Subjects)'
        BY <2>2, <2>3
      <4> QED
        BY <4>2, <4>3 DEF PagesInv, ButtonsAreTrue
    <3> QED
      BY <3>1, <3>2
  <2> QED
    BY <2>4, <2>5 DEF ButtonsAreTrue
<1> QED
  BY <1>1, <1>5, <1>6, <1>7, <1>8 DEF PagesInv, ActionIsShown, shows

\* A request goes on.
LEMMA GoesOn ==
  ASSUME PagesInv, NEW k \in Slots, NEW a \in Asks, asks' = [asks EXCEPT ![k] = a],
         a.mounted = asks[k].mounted, a.buttons = asks[k].buttons, a.step # "entering",
         \/ /\ present' = present
            /\ a.step \in {"asking", "sent"} => asks[k].step \in {"asking", "sent"}
         \/ /\ present' = present + 1 /\ asks[k].step \in {"asking", "sent"}
            /\ a.step \notin {"asking", "sent"},
         a.promise <= present',
         a.step = "read" /\ a.mounted => a.version >= promised /\ a.version >= a.promise,
         subject' \in Subjects \cup {NoSubject},
         UNCHANGED <<open, picture, auto, busy, signedIn, promised, moves, fails>>
  PROVE  PagesInv'
<1>1. asks \in [Slots -> Asks] /\ present \in Nat /\ promised \in Nat
  BY DEF PagesInv, PagesTypeOK, Versions
<1>2. /\ asks' \in [Slots -> Asks] /\ asks'[k] = a
      /\ \A j \in Slots \ {k} : asks'[j] = asks[j]
      /\ Cardinality(Coming) \in Nat /\ Cardinality(Coming') \in Nat
      /\ Cardinality(Coming') =
           Cardinality(Coming) - (IF asks[k].step \in {"asking", "sent"} THEN 1 ELSE 0)
                               + (IF a.step \in {"asking", "sent"} THEN 1 ELSE 0)
  BY <1>1, OneRequest
<1>3. present' \in Nat /\ present' >= present /\ present' + Cardinality(Coming') <= MaxChanges
  BY <1>1, <1>2, PagesAssumption DEF PagesInv
<1>4. PagesTypeOK'
  BY <1>2, <1>3, PagesAssumption DEF PagesInv, PagesTypeOK, Versions
<1>5. (\A j \in Slots : RequestOK(asks[j]))'
  <2> SUFFICES ASSUME NEW j \in Slots PROVE RequestOK(asks[j])'
    OBVIOUS
  <2>1. RequestOK(asks[j]) /\ asks[j].promise \in Nat
    BY <1>1 DEF PagesInv, Asks, Versions
  <2>2. CASE j = k
    BY <1>2, <2>1, <2>2 DEF RequestOK
  <2>3. CASE j # k
    <3>1. asks'[j] = asks[j]
      BY <1>2, <2>3
    <3> QED
      BY <1>1, <1>3, <2>1, <3>1 DEF RequestOK
  <2> QED
    BY <2>2, <2>3
<1>6. ButtonsAreTrue'
  <2>1. \A j \in Slots : \A bs : Marks(j, bs)' <=> Marks(j, bs)
    BY <1>2 DEF Marks
  <2> QED
    BY <2>1 DEF PagesInv, ButtonsAreTrue
<1>7. (promised <= present)'
  BY <1>1, <1>3 DEF PagesInv
<1> QED
  BY <1>3, <1>4, <1>5, <1>6, <1>7 DEF PagesInv, ActionIsShown

\* A request ends, and what it marked is released.
LEMMA Ends ==
  ASSUME PagesInv, NEW k \in Slots, asks' = [asks EXCEPT ![k] = Free], busy' = Released(k),
         \/ present' = present
         \/ present' = present + 1 /\ asks[k].step \in {"asking", "sent"},
         picture' \in [of : Subjects \cup {NoSubject}, version : Versions],
         promised' \in Versions, promised' <= present', ActionIsShown',
         \A j \in Slots \ {k} :
           asks[j].step = "read" /\ asks[j].mounted => asks[j].version >= promised',
         fails' \in 0..MaxFails, UNCHANGED <<open, subject, auto, signedIn, moves>>
  PROVE  PagesInv'
<1>1. asks \in [Slots -> Asks] /\ present \in Nat
  BY DEF PagesInv, PagesTypeOK, Versions
<1>2. Free \in Asks /\ Free.step = "free" /\ ~Free.mounted /\ Free.promise = 0
  BY FreeFields
<1>3. /\ asks' \in [Slots -> Asks] /\ asks'[k] = Free
      /\ \A j \in Slots \ {k} : asks'[j] = asks[j]
      /\ Cardinality(Coming) \in Nat /\ Cardinality(Coming') \in Nat
      /\ Cardinality(Coming') =
           Cardinality(Coming) - (IF asks[k].step \in {"asking", "sent"} THEN 1 ELSE 0)
                               + (IF Free.step \in {"asking", "sent"} THEN 1 ELSE 0)
  BY <1>1, <1>2, OneRequest
<1>4. present' \in Nat /\ present' >= present /\ present' + Cardinality(Coming') <= MaxChanges
  BY <1>1, <1>2, <1>3, PagesAssumption DEF PagesInv
<1>5. asks[k].buttons \in ButtonSets /\ busy' \subseteq busy
  BY <1>1 DEF Released, Asks
<1>6. PagesTypeOK'
  BY <1>3, <1>4, <1>5, PagesAssumption DEF PagesInv, PagesTypeOK, Versions
<1>7. (\A j \in Slots : RequestOK(asks[j]))'
  <2> SUFFICES ASSUME NEW j \in Slots PROVE RequestOK(asks[j])'
    OBVIOUS
  <2>1. RequestOK(asks[j]) /\ asks[j].promise \in Nat
    BY <1>1 DEF PagesInv, Asks, Versions
  <2>2. CASE j = k
    BY <1>2, <1>3, <1>4, <2>2 DEF RequestOK
  <2>3. CASE j # k
    <3>1. asks'[j] = asks[j]
      BY <1>3, <2>3
    <3> QED
      BY <1>1, <1>4, <2>1, <2>3, <3>1 DEF RequestOK
  <2> QED
    BY <2>2, <2>3
<1>8. ButtonsAreTrue'
  <2> DEFINE bk == asks[k].buttons
  <2>1. \A b \in {"form", "page"} : b \notin Subjects /\ Subjects # {b}
    BY PagesAssumption
  <2>2. /\ \A j \in Slots \ {k} : \A bs : Marks(j, bs)' <=> Marks(j, bs)
        /\ \A bs : ~Marks(k, bs)'
    BY <1>2, <1>3 DEF Marks
  <2>3. CASE ~asks[k].mounted
    <3>1. busy' = busy /\ \A bs : ~Marks(k, bs)
      BY <2>3 DEF Released, Marks
    <3>2. \A j \in Slots : \A bs : Marks(j, bs)' <=> Marks(j, bs)
      BY <2>2, <3>1
    <3> QED
      BY <3>1, <3>2 DEF PagesInv, ButtonsAreTrue
  <2>4. CASE asks[k].mounted
    <3>1. busy' = busy \ bk /\ Marks(k, bk) /\ \A bs : Marks(k, bs) => bs = bk
      BY <2>4 DEF Released, Marks
    <3> HIDE DEF bk
    <3>2. bk \in ButtonSets
      BY <1>5 DEF bk
    <3>3. ASSUME NEW b \in {"form", "page"}
          PROVE  /\ (b \in busy <=> \E j \in Slots : Marks(j, {b}))'
                 /\ \A i, j \in Slots : Marks(i, {b})' /\ Marks(j, {b})' => i = j
      <4>1. /\ b \in busy <=> \E j \in Slots : Marks(j, {b})
            /\ \A i, j \in Slots : Marks(i, {b}) /\ Marks(j, {b}) => i = j
        BY DEF PagesInv, ButtonsAreTrue
      <4>2. \A i, j \in Slots : Marks(i, {b})' /\ Marks(j, {b})' => i = j
        BY <2>2, <4>1
      <4>3. CASE bk = {b}
        <5>1. b \notin busy' /\ \A j \in Slots : ~Marks(j, {b})'
          BY <2>2, <3>1, <4>1, <4>3
        <5> QED
          BY <4>2, <5>1
      <4>4. CASE bk # {b}
        <5>1. b \notin bk
          BY <2>1, <3>2, <4>4 DEF ButtonSets
        <5>2. b \in busy' <=> b \in busy
          BY <3>1, <5>1
        <5>3. \A j \in Slots : Marks(j, {b})' <=> Marks(j, {b})
          BY <2>2, <3>1, <4>4
        <5> QED
          BY <4>1, <4>2, <5>2, <5>3
      <4> QED
        BY <4>3, <4>4
    <3>4. (busy \cap Subjects # {} => \E j \in Slots : Marks(j, Subjects))'
      <4>1. CASE bk = Subjects
        BY <3>1, <4>1
      <4>2. CASE bk # Subjects
        <5>1. \A j \in Slots : Marks(j, Subjects) => Marks(j, Subjects)'
          BY <2>2, <3>1, <4>2
        <5> QED
          BY <3>1, <5>1 DEF PagesInv, ButtonsAreTrue
      <4> QED
        BY <4>1, <4>2
    <3> QED
      BY <3>3, <3>4 DEF ButtonsAreTrue
  <2> QED
    BY <2>3, <2>4
<1> QED
  BY <1>4, <1>6, <1>7, <1>8 DEF PagesInv

\* The fields of the request in a slot.
LEMMA SlotFields ==
  ASSUME PagesInv, NEW k \in Slots
  PROVE  /\ asks \in [Slots -> Asks] /\ asks[k] \in Asks /\ RequestOK(asks[k])
         /\ present \in Nat /\ promised \in Nat
         /\ asks[k].promise \in Nat /\ asks[k].version \in Nat
BY DEF PagesInv, PagesTypeOK, Asks, Versions

\* What the operator and others do.
LEMMA OperatorInv ==
  ASSUME PagesInv,
         \/ \E p \in PageNames : GoTo(p) \/ LogIn(p)
         \/ \E s \in Subjects : Select(s)
         \/ ToggleAuto \/ SignOut \/ Change
         \/ \E k \in Slots : \/ Poll(k) \/ Refresh(k)
                             \/ \E p \in PageNames : \E d \in site[p].deeds : open = p /\ Act(k, d)
  PROVE  PagesInv'
<1>0. /\ PagesTypeOK /\ asks \in [Slots -> Asks] /\ MaxMoves \in Nat
      /\ (OperatorMoves => moves' \in 0..MaxMoves /\ fails' = fails)
  BY PagesAssumption DEF PagesInv, PagesTypeOK, OperatorMoves
<1>1. ASSUME NEW p \in PageNames, GoTo(p) \/ LogIn(p) PROVE PagesInv'
  <2>1. /\ Mount(p) /\ signedIn' \in BOOLEAN /\ moves' \in 0..MaxMoves
        /\ UNCHANGED <<present, promised, fails>>
    BY <1>0, <1>1 DEF GoTo, LogIn, PagesTypeOK
  <2> QED
    BY <2>1, MountInv
<1>2. ASSUME NEW s \in Subjects, Select(s) PROVE PagesInv'
  <2> DEFINE g == [k \in Slots |-> IF asks[k].step = "entering" /\ open # "players"
                                      THEN Free ELSE asks[k]]
             a == IF open = "players" THEN Load("checking", s) ELSE FirstLoad(open, s)
  <2>1. PICK k \in Slots : g[k] = Free /\ asks' = [g EXCEPT ![k] = a]
    BY <1>2 DEF Select
  <2>2. /\ open # "login" /\ subject' \in Subjects \cup {NoSubject}
        /\ moves' \in 0..MaxMoves
        /\ UNCHANGED <<open, picture, auto, busy, signedIn, present, promised, fails>>
    BY <1>0, <1>2 DEF Select, PageNames
  <2>3. /\ g \in [Slots -> Asks]
        /\ \A j \in Slots : g[j] = asks[j] \/ (g[j] = Free /\ asks[j].step = "entering")
    BY <1>0, FreeFields
  <2>4. /\ a \in Asks /\ a.step \in {"entering", "checking"} /\ a.buttons = {}
        /\ a.promise = 0 /\ a.mounted
    BY LoadFields DEF FirstLoad, Steps
  <2> HIDE DEF g, a
  <2> QED
    BY <2>1, <2>2, <2>3, <2>4, LoadStarts
<1>3. ASSUME NEW k \in Slots, Poll(k) \/ Refresh(k) PROVE PagesInv'
  <2> DEFINE a == Load("checking", subject)
  <2>1. /\ asks[k] = Free /\ asks' = [asks EXCEPT ![k] = a] /\ open # "login"
        /\ moves' \in 0..MaxMoves
        /\ UNCHANGED <<tab, signedIn, present, promised, fails>>
    BY <1>0, <1>3
       DEF Poll, Refresh, Loads, Timed, Refreshable, bounds, PagesTypeOK
  <2>2. /\ a \in Asks /\ a.step = "checking" /\ a.buttons = {} /\ a.promise = 0 /\ a.mounted
    BY <1>0, LoadFields DEF Steps, PagesTypeOK
  <2>3. /\ subject' \in Subjects \cup {NoSubject}
        /\ UNCHANGED <<open, picture, auto, busy, signedIn, present, promised, fails>>
    BY <1>0, <2>1 DEF tab, shows, PagesTypeOK
  <2> HIDE DEF a
  <2> QED
    BY <1>0, <2>1, <2>2, <2>3, LoadStarts
<1>4. ASSUME NEW k \in Slots, NEW p \in PageNames, NEW d \in site[p].deeds, open = p, Act(k, d)
      PROVE  PagesInv'
  BY <1>4, ActInv
<1>5. ASSUME ToggleAuto PROVE PagesInv'
  <2>1. /\ auto' \in BOOLEAN /\ moves' \in 0..MaxMoves
        /\ UNCHANGED <<open, subject, picture, busy, asks, signedIn, present, promised, fails>>
    BY <1>0, <1>5 DEF ToggleAuto
  <2>2. PagesTypeOK'
    BY <1>0, <2>1 DEF PagesTypeOK
  <2>3. Coming' = Coming /\ \A k \in Slots : RequestOK(asks[k])' <=> RequestOK(asks[k])
    BY <2>1 DEF Coming, RequestOK
  <2>4. ButtonsAreTrue' /\ ActionIsShown'
    BY <2>1 DEF PagesInv, ButtonsAreTrue, Marks, ActionIsShown
  <2> QED
    BY <2>1, <2>2, <2>3, <2>4 DEF PagesInv
<1>6. ASSUME Change PROVE PagesInv'
  <2>1. /\ present + Cardinality(Coming) < MaxChanges /\ present' = present + 1
        /\ UNCHANGED <<tab, asks, signedIn, promised, bounds>>
    BY <1>6 DEF Change, Begun, Coming
  <2>2. Cardinality(Coming) \in Nat /\ present \in Nat /\ promised \in Nat
    BY <1>0, FS_Subset, FS_CardinalityType, PagesAssumption DEF Coming, PagesTypeOK, Versions
  <2>3. PagesTypeOK'
    BY <1>0, <2>1, <2>2, PagesAssumption DEF PagesTypeOK, Versions, tab, shows, bounds
  <2>4. Coming' = Coming
    BY <2>1 DEF Coming
  <2>5. \A k \in Slots : RequestOK(asks[k])'
    <3> SUFFICES ASSUME NEW k \in Slots PROVE RequestOK(asks[k])'
      OBVIOUS
    <3>1. RequestOK(asks[k]) /\ asks[k].promise \in Nat
      BY SlotFields
    <3> QED
      BY <2>1, <2>2, <3>1 DEF RequestOK, tab, shows
  <2>6. ButtonsAreTrue' /\ ActionIsShown'
    BY <2>1 DEF PagesInv, ButtonsAreTrue, Marks, ActionIsShown, tab, shows
  <2> QED
    BY <2>1, <2>2, <2>3, <2>4, <2>5, <2>6, PagesAssumption DEF PagesInv
<1>7. ASSUME SignOut PROVE PagesInv'
  <2>1. /\ signedIn' = FALSE /\ open' = "login" /\ picture' = Blank /\ busy' = {}
        /\ asks' = Unmounted
        /\ UNCHANGED <<subject, auto, present, promised, moves, fails>>
    BY <1>7 DEF SignOut, bounds
  <2>2. present \in Nat /\ fails' \in 0..MaxFails
    BY <1>0, <2>1 DEF PagesTypeOK, Versions
  <2>3. /\ asks' \in [Slots -> Asks]
        /\ \A j \in Slots : /\ ~asks'[j].mounted /\ asks'[j].promise = 0
                            /\ asks'[j].buttons = {}
                            /\ asks'[j].step \in {asks[j].step, "free"}
    BY <1>0, <2>1, UnmountedFields
  <2>4. \A j \in Slots : asks'[j].promise <= present
    BY <2>2, <2>3
  <2> QED
    BY <2>1, <2>2, <2>3, <2>4, PageIsGone
<1> QED
  BY <1>1, <1>2, <1>3, <1>4, <1>5, <1>6, <1>7

\* What becomes of a request.
LEMMA ProgressInv ==
  ASSUME PagesInv, NEW k \in Slots, Progress(k)
  PROVE  PagesInv'
<1> DEFINE o == asks[k]
<1>0. /\ asks \in [Slots -> Asks] /\ o \in Asks /\ RequestOK(o)
      /\ present \in Nat /\ promised \in Nat /\ o.promise \in Nat /\ o.version \in Nat
  BY SlotFields
<1>9. subject \in Subjects \cup {NoSubject}
  BY DEF PagesInv, PagesTypeOK
<1>1. CASE Passes(k)
  <2> DEFINE a == [o EXCEPT !.step = Checked[@]]
  <2>1. /\ o.step \in {"entering", "asking", "checking"} /\ asks' = [asks EXCEPT ![k] = a]
        /\ UNCHANGED <<tab, signedIn, present, promised, bounds>>
    BY <1>0, <1>1 DEF Passes
  <2>2. /\ o.step = "entering" => Checked[o.step] = "checking"
        /\ o.step = "asking" => Checked[o.step] = "sent"
        /\ o.step = "checking" => Checked[o.step] = "reading"
    BY DEF Checked
  <2>3. /\ a \in Asks /\ a.mounted = o.mounted /\ a.buttons = o.buttons
        /\ a.promise = o.promise /\ a.step = Checked[o.step]
    BY <1>0, <2>1, <2>2 DEF Asks, Steps
  <2> HIDE DEF a
  <2>4. /\ a.step \notin {"entering", "read"}
        /\ a.step \in {"asking", "sent"} => o.step \in {"asking", "sent"}
    BY <2>1, <2>2, <2>3
  <2>5. a.promise <= present'
    BY <1>0, <2>1, <2>3 DEF RequestOK
  <2> QED
    BY <1>9, <2>1, <2>3, <2>4, <2>5, GoesOn DEF tab, shows, bounds
<1>2. CASE Refuse(k)
  <2>0. fails' \in 0..MaxFails
    BY <1>2, PagesAssumption DEF Refuse, PagesInv, PagesTypeOK
  <2>1. /\ signedIn' \in BOOLEAN
        /\ open' = "login" /\ picture' = Blank /\ busy' = {}
        /\ asks' = IF open = "login" THEN [asks EXCEPT ![k] = Free] ELSE [j \in Slots |-> Free]
        /\ UNCHANGED <<subject, auto, present, promised, moves>>
    BY <1>2 DEF Refuse
  <2>2. \A j \in Slots : asks'[j] = Free \/ (open = "login" /\ asks'[j] = asks[j])
    BY <1>0, <2>1
  <2>3. asks' \in [Slots -> Asks]
    BY <1>0, <2>1, FreeFields
  <2>4. ASSUME NEW j \in Slots
        PROVE  /\ ~asks'[j].mounted /\ asks'[j].promise <= present
               /\ asks'[j].step = "entering" => asks'[j].buttons = {}
               /\ asks'[j].step \in {asks[j].step, "free"}
    <3>1. CASE asks'[j] = Free
      BY <1>0, <3>1, FreeFields
    <3>2. CASE open = "login" /\ asks'[j] = asks[j]
      BY <3>2, SlotFields DEF RequestOK
    <3> QED
      BY <2>2, <3>1, <3>2
  <2> QED
    BY <2>0, <2>1, <2>3, <2>4, PageIsGone
<1>3. CASE Serve(k)
  <2>1. CASE o.step = "sent"
    <3> DEFINE a == [o EXCEPT !.step = "answered", !.promise = present + 1]
    <3>1. /\ asks' = [asks EXCEPT ![k] = a] /\ present' = present + 1
          /\ UNCHANGED <<tab, signedIn, promised, bounds>>
      BY <1>0, <1>3, <2>1 DEF Serve
    <3>2. present + 1 \in Versions
      <4>1. /\ k \in Coming /\ IsFiniteSet(Coming)
        BY <2>1, FS_Subset, PagesAssumption DEF Coming
      <4>2. /\ Cardinality(Coming) \in Nat /\ Cardinality(Coming \ {k}) \in Nat
            /\ Cardinality(Coming \ {k}) = Cardinality(Coming) - 1
        BY <4>1, FS_RemoveElement, FS_CardinalityType
      <4> QED
        BY <1>0, <4>2, PagesAssumption DEF PagesInv, Versions
    <3>3. /\ a \in Asks /\ a.mounted = o.mounted /\ a.buttons = o.buttons
          /\ a.promise = present + 1 /\ a.step = "answered"
      BY <1>0, <3>2 DEF Asks, Steps
    <3> HIDE DEF a
    <3>4. /\ asks[k].step \in {"asking", "sent"}
          /\ a.step \notin {"asking", "sent", "entering", "read"}
      BY <2>1, <3>3
    <3>5. UNCHANGED <<open, subject, picture, auto, busy, signedIn, promised, moves, fails>>
      BY <3>1 DEF tab, shows, bounds
    <3>6. a.promise <= present'
      BY <1>0, <3>1, <3>3
    <3> QED
      BY <1>9, <3>1, <3>3, <3>4, <3>5, <3>6, GoesOn
  <2>2. CASE o.step = "reading"
    <3> DEFINE a == [o EXCEPT !.step = "read", !.version = present]
    <3>1. /\ asks' = [asks EXCEPT ![k] = a]
          /\ UNCHANGED <<tab, signedIn, present, promised, bounds>>
      BY <1>0, <1>3, <2>2 DEF Serve
    <3>2. /\ a \in Asks /\ a.mounted = o.mounted /\ a.buttons = o.buttons
          /\ a.promise = o.promise /\ a.step = "read" /\ a.version = present
      BY <1>0 DEF Asks, Steps, PagesInv, PagesTypeOK
    <3>3. o.promise <= present /\ promised <= present
      BY <1>0 DEF RequestOK, PagesInv
    <3> HIDE DEF a
    <3> QED
      BY <1>0, <1>9, <3>1, <3>2, <3>3, GoesOn DEF tab, shows, bounds
  <2> QED
    BY <1>3, <2>1, <2>2 DEF Serve
<1>4. ASSUME NEW q, q = promised PROVE
        \A j \in Slots \ {k} :
          asks[j].step = "read" /\ asks[j].mounted => asks[j].version >= q
  BY <1>4 DEF PagesInv, RequestOK
<1>5. CASE Answered(k)
  <2>1. CASE Follows(k) # Free
    <3> DEFINE a == [o EXCEPT !.step = "checking"]
    <3>1. /\ asks' = [asks EXCEPT ![k] = a] /\ o.step = "answered"
          /\ UNCHANGED <<tab, signedIn, present, promised, bounds>>
      BY <1>0, <1>5, <2>1 DEF Answered, Follows, tab
    <3>2. /\ a \in Asks /\ a.mounted = o.mounted /\ a.buttons = o.buttons
          /\ a.promise = o.promise /\ a.step = "checking"
      BY <1>0 DEF Asks, Steps
    <3> HIDE DEF a
    <3> QED
      BY <1>0, <1>9, <3>1, <3>2, GoesOn DEF tab, shows, bounds, RequestOK
  <2>2. CASE Follows(k) = Free
    <3>1. /\ asks' = [asks EXCEPT ![k] = Free] /\ busy' = Released(k)
          /\ UNCHANGED <<shows, signedIn, present, promised, bounds>>
      BY <1>5, <2>2 DEF Answered
    <3>2. /\ picture' \in [of : Subjects \cup {NoSubject}, version : Versions]
          /\ promised' \in Versions /\ promised' <= present' /\ ActionIsShown'
          /\ fails' \in 0..MaxFails
      BY <3>1 DEF PagesInv, PagesTypeOK, ActionIsShown, shows, bounds
    <3> QED
      BY <1>4, <3>1, <3>2, Ends DEF shows, bounds
  <2> QED
    BY <2>1, <2>2
<1>8. CASE Listed(k)
  <2>1. /\ o.step = "read" /\ fails' = fails /\ moves' = moves
        /\ UNCHANGED <<open, picture, auto, signedIn, present, promised>>
    BY <1>8 DEF Listed, bounds
  <2>2. CASE /\ subject' \in Subjects
             /\ asks' = [asks EXCEPT ![k].step = "checking", ![k].of = subject']
             /\ UNCHANGED busy
    <3> DEFINE a == [o EXCEPT !.step = "checking", !.of = subject']
    <3>1. asks' = [asks EXCEPT ![k] = a]
      BY <1>0, <2>2
    <3>2. /\ a \in Asks /\ a.step = "checking" /\ a.promise = o.promise
          /\ a.mounted = o.mounted /\ a.buttons = o.buttons
      BY <1>0, <2>2 DEF Asks, Steps
    <3>3. a.promise <= present'
      BY <1>0, <2>1, <3>2 DEF RequestOK
    <3> HIDE DEF a
    <3> QED
      BY <1>4, <2>1, <2>2, <3>1, <3>2, <3>3, GoesOn
  <2>3. CASE asks' = [asks EXCEPT ![k] = Free] /\ busy' = Released(k) /\ UNCHANGED subject
    <3>1. /\ picture' \in [of : Subjects \cup {NoSubject}, version : Versions]
          /\ promised' \in Versions /\ promised' <= present' /\ ActionIsShown'
          /\ fails' \in 0..MaxFails
      BY <2>1 DEF PagesInv, PagesTypeOK, ActionIsShown
    <3>2. \A j \in Slots \ {k} :
            asks[j].step = "read" /\ asks[j].mounted => asks[j].version >= promised'
      BY <1>4, <2>1
    <3> QED
      BY <2>1, <2>3, <3>1, <3>2, Ends
  <2> QED
    BY <1>8, <2>2, <2>3 DEF Listed
<1>6. CASE Show(k)
  <2>1. /\ o.step = "read" /\ asks' = [asks EXCEPT ![k] = Free] /\ busy' = Released(k)
        /\ UNCHANGED <<open, subject, auto, signedIn, present, bounds>>
        /\ IF o.mounted
             THEN /\ picture' = Pictured(k)
                  /\ promised' = IF o.promise > promised /\ ~OlderComes(k, o.promise)
                                   THEN o.promise ELSE promised
             ELSE UNCHANGED <<picture, promised>>
    BY <1>6 DEF Show
  <2>2. CASE ~o.mounted
    <3>1. /\ picture' \in [of : Subjects \cup {NoSubject}, version : Versions]
          /\ promised' \in Versions /\ promised' <= present' /\ ActionIsShown'
          /\ fails' \in 0..MaxFails
      BY <2>1, <2>2 DEF PagesInv, PagesTypeOK, ActionIsShown, bounds
    <3> QED
      BY <1>4, <2>1, <2>2, <3>1, Ends DEF bounds
  <2>3. CASE o.mounted
    <3>1. /\ picture' = [of |-> o.of, version |-> o.version]
          /\ picture' \in [of : Subjects \cup {NoSubject}, version : Versions]
      BY <1>0, <2>1, <2>3 DEF Pictured, Asks
    <3>2. o.version >= promised /\ o.version >= o.promise /\ o.promise <= present
      BY <1>0, <2>1, <2>3 DEF RequestOK
    <3>3. promised' \in Versions /\ promised' <= present' /\ fails' \in 0..MaxFails
      BY <1>0, <2>1, <2>3, <3>2 DEF PagesInv, PagesTypeOK, Asks, bounds
    <3>4. ActionIsShown'
      BY <2>1, <2>3, <3>1, <3>2 DEF ActionIsShown
    <3>5. \A j \in Slots \ {k} :
            asks[j].step = "read" /\ asks[j].mounted => asks[j].version >= promised'
      <4> SUFFICES ASSUME NEW j \in Slots \ {k}, asks[j].step = "read", asks[j].mounted
                   PROVE  asks[j].version >= promised'
        OBVIOUS
      <4>1. asks[j].version \in Nat /\ asks[j].version >= promised
        BY <1>4, SlotFields
      <4>2. ~OlderComes(k, o.promise) => asks[j].version >= o.promise
        BY <1>0, <4>1 DEF OlderComes
      <4> QED
        BY <2>1, <2>3, <4>1, <4>2
    <3> QED
      BY <2>1, <3>1, <3>3, <3>4, <3>5, Ends DEF bounds
  <2> QED
    BY <2>2, <2>3
<1>7. CASE Fail(k)
  <2>1. /\ asks' = [asks EXCEPT ![k] = Free] /\ busy' = Released(k)
        /\ present' \in IF o.step = "sent" THEN {present, present + 1} ELSE {present}
        /\ picture' \in {Blank, picture}
        /\ UNCHANGED <<open, subject, auto, signedIn, promised, moves>>
    BY <1>7 DEF Fail
  <2>2. fails' \in 0..MaxFails
    BY <1>7, PagesAssumption DEF Fail, PagesInv, PagesTypeOK
  <2>3. /\ picture' \in [of : Subjects \cup {NoSubject}, version : Versions]
        /\ promised' \in Versions /\ ActionIsShown'
    BY <2>1, PagesAssumption DEF PagesInv, PagesTypeOK, ActionIsShown, Blank, Versions
  <2>4. promised' <= present'
    BY <1>0, <2>1 DEF PagesInv
  <2>5. present' = present \/ (present' = present + 1 /\ asks[k].step \in {"asking", "sent"})
    BY <2>1
  <2> QED
    BY <1>4, <2>1, <2>2, <2>3, <2>4, <2>5, Ends
<1> QED
  BY <1>1, <1>2, <1>3, <1>5, <1>6, <1>7, <1>8 DEF Progress

\* The tab as it is opened.
LEMMA InitPagesInv == PagesInit => PagesInv
<1> SUFFICES ASSUME PagesInit PROVE PagesInv
  OBVIOUS
<1>1. \A k \in Slots : asks[k] = Free
  BY DEF PagesInit
<1>2. PagesTypeOK
  BY FreeFields, PagesAssumption DEF PagesInit, PagesTypeOK, Blank, Versions
<1>3. Coming = {}
  BY <1>1, FreeFields DEF Coming
<1>4. present + Cardinality(Coming) <= MaxChanges
  BY <1>3, FS_EmptySet, PagesAssumption DEF PagesInit
<1>5. \A k \in Slots : RequestOK(asks[k])
  BY <1>1, FreeFields DEF PagesInit, RequestOK
<1>6. ButtonsAreTrue
  BY <1>1, FreeFields DEF PagesInit, ButtonsAreTrue, Marks
<1> QED
  BY <1>2, <1>4, <1>5, <1>6 DEF PagesInit, PagesInv, ActionIsShown

\* The invariant holds in every reachable state of the tab.
THEOREM TabInvariant == PagesSpec => []PagesInv
<1>1. PagesInv /\ [PagesNext]_pagesVars => PagesInv'
  <2> SUFFICES ASSUME PagesInv, [PagesNext]_pagesVars PROVE PagesInv'
    OBVIOUS
  <2>1. CASE PagesNext
    BY <2>1, OperatorInv, ProgressInv DEF PagesNext
  <2>2. CASE UNCHANGED pagesVars
    <3>1. UNCHANGED <<open, subject, picture, auto, busy, asks, signedIn, present, promised,
                      moves, fails>>
      BY <2>2 DEF pagesVars, tab, shows, bounds
    <3>2. PagesTypeOK' /\ Coming' = Coming /\ ActionIsShown'
      BY <3>1 DEF PagesInv, PagesTypeOK, Coming, ActionIsShown
    <3>3. ButtonsAreTrue' /\ \A k \in Slots : RequestOK(asks[k])'
      BY <3>1 DEF PagesInv, ButtonsAreTrue, Marks, RequestOK
    <3> QED
      BY <3>1, <3>2, <3>3 DEF PagesInv
  <2> QED
    BY <2>1, <2>2
<1> QED
  BY <1>1, InitPagesInv, PTL DEF PagesSpec

\* Whatever requests are under way and however they end, a change the operator made
\* and the page has shown stays shown.
THEOREM ShownStaysShown == PagesSpec => []ActionIsShown
BY TabInvariant, PTL DEF PagesInv

\* A disabled button belongs to a request that is under way, and a form's request is
\* the only one of its kind, also after the page was left and opened again.
THEOREM NoButtonIsStuck == PagesSpec => []ButtonsAreTrue
BY TabInvariant, PTL DEF PagesInv

=============================================================================
