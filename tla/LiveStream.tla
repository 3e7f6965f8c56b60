----------------------------- MODULE LiveStream -----------------------------
(***************************************************************************)
(* The live log stream from the API to the console page of the browser.    *)
(*                                                                         *)
(* API side: the upgrade handler (apps/api/src/ws/router.ts), the client   *)
(* hub (apps/api/src/ws/clientHub.ts) and the gateway that relays an       *)
(* agent's LOG_LINE frames to it.  Browser side: openServerStream          *)
(* (apps/web/src/lib/ws-client.ts) and the page that opens one stream at a *)
(* time (apps/web/src/pages/console.tsx).                                  *)
(*                                                                         *)
(* A stream is one call of openServerStream.  Streams are numbered; the    *)
(* last one, cur, is the page's, the earlier ones are disposed but their   *)
(* sockets may still be closing.  Each side acts on its own: the hub sees  *)
(* a socket close before or after the browser does anything else, the API  *)
(* may restart, a connection may break, and the token may expire.          *)
(*                                                                         *)
(* Abstracted: METRICS (the console ignores them), the words of a line.    *)
(* The hub's entry of a broken socket is dropped at once: what is sent to  *)
(* it before the hub notices reaches nobody.                               *)
(***************************************************************************)
EXTENDS Integers, Sequences

CONSTANTS
  Servers,      \* the servers the page can show
  NoServer,     \* the page was left
  MaxStreams,   \* bound: openServerStream calls
  MaxLines,     \* bound: log lines broadcast, all servers together
  MaxBreaks     \* bound: broken connections and API restarts

ASSUME StreamAssumption ==
  /\ NoServer \notin Servers
  /\ MaxStreams \in Nat \ {0}
  /\ MaxLines \in Nat
  /\ MaxBreaks \in Nat

Streams == 1..MaxStreams

VARIABLES
  active,    \* console.tsx activeServerId
  cur,       \* the number of streams opened so far
  server,    \* the server each stream was opened for
  disposed,  \* the disposed flag of each stream
  phase,     \* each stream's socket and reconnect timer
  status,    \* the status pill of the page
  shown,     \* the log lines of the page
  hub,       \* the streams whose socket is in the hub's client set
  subs,      \* those of them that are subscribed to their server's lines
  refused,   \* the streams whose SUBSCRIBE was answered FORBIDDEN
  asking,    \* the streams with a SUBSCRIBE on its way to the hub
  down,      \* the lines on their way to each stream's socket
  lines,     \* the number of lines broadcast so far
  allowed,   \* the servers canSubscribe grants this user
  tokenOk,   \* the token of the page has not expired
  apiUp,     \* the API process is listening
  breaks

page == <<active, cur, server, disposed>>
view == <<status, shown>>
hubs == <<hub, subs, refused, asking, down>>
world == <<lines, allowed, tokenOk, apiUp, breaks>>
vars == <<page, phase, view, hubs, world>>

\* A socket is connecting, accepted by the API, open to the page, or closing
\* (its close event has yet to fire); without one the 2 s timer may run.
Phases == {"idle", "connecting", "accepted", "open", "closing", "timer"}
Connected(k) == phase[k] \in {"connecting", "accepted", "open"}

Line == Servers \X (1..MaxLines)

\* Every variable keeps its type.
TypeOK ==
  /\ active \in Servers \cup {NoServer} /\ cur \in Streams
  /\ server \in [Streams -> Servers \cup {NoServer}]
  /\ disposed \in [Streams -> BOOLEAN] /\ phase \in [Streams -> Phases]
  /\ status \in {"connecting", "open", "error", "closed"}
  /\ shown \in Seq(Line)
  /\ subs \subseteq hub /\ hub \subseteq Streams
  /\ refused \subseteq Streams /\ asking \subseteq Streams
  /\ down \in [Streams -> Seq(Line)]
  /\ lines \in 0..MaxLines /\ allowed \subseteq Servers
  /\ tokenOk \in BOOLEAN /\ apiUp \in BOOLEAN /\ breaks \in 0..MaxBreaks

\* The page has loaded, got a token, and opened its first stream.
Init ==
  /\ active \in Servers /\ cur = 1
  /\ server = [k \in Streams |-> IF k = 1 THEN active ELSE NoServer]
  /\ disposed = [k \in Streams |-> FALSE]
  /\ phase = [k \in Streams |-> IF k = 1 THEN "connecting" ELSE "idle"]
  /\ status = "connecting" /\ shown = <<>>
  /\ hub = {} /\ subs = {} /\ refused = {} /\ asking = {}
  /\ down = [k \in Streams |-> <<>>]
  /\ lines = 0 /\ allowed \in SUBSET Servers
  /\ tokenOk = TRUE /\ apiUp = TRUE /\ breaks = 0

\* What the API forgets of the sockets in S, and what was on their wires.
Dropped(S) ==
  /\ hub' = hub \ S /\ subs' = subs \ S
  /\ refused' = refused \ S /\ asking' = asking \ S
  /\ down' = [k \in Streams |-> IF k \in S THEN <<>> ELSE down[k]]

-----------------------------------------------------------------------------
(* The browser.                                                             *)

\* The disposer: it sets the flag, clears the timer and closes the socket.
\* A socket that is closing delivers no more messages.
Closed(k) ==
  [phase EXCEPT ![k] = IF Connected(k) THEN "closing"
                       ELSE IF @ = "timer" THEN "idle" ELSE @]

\* Mutant of Dispose: the flag is not set.
ForgetFlag(k) == [flag |-> disposed, phase |-> Closed(k)]

Dispose(k) == [flag |-> [disposed EXCEPT ![k] = TRUE], phase |-> Closed(k)]

\* The operator picks another server: the effect's cleanup disposes the old
\* stream, the effect clears the log and opens a stream, which connects.
Switch(s) ==
  /\ active # NoServer /\ s # active /\ cur < MaxStreams
  /\ active' = s /\ cur' = cur + 1
  /\ server' = [server EXCEPT ![cur + 1] = s]
  /\ disposed' = Dispose(cur).flag
  /\ phase' = [Dispose(cur).phase EXCEPT ![cur + 1] = "connecting"]
  /\ status' = "connecting" /\ shown' = <<>>
  /\ UNCHANGED <<hubs, world>>

\* The operator leaves the page, which disposes its stream.
Leave ==
  /\ active # NoServer
  /\ active' = NoServer
  /\ disposed' = Dispose(cur).flag /\ phase' = Dispose(cur).phase
  /\ status' = "closed" /\ shown' = <<>>
  /\ UNCHANGED <<cur, server, hubs, world>>

\* onopen: the status, then a SUBSCRIBE for each topic.
OnOpen(k) ==
  /\ phase[k] = "accepted"
  /\ phase' = [phase EXCEPT ![k] = "open"]
  /\ status' = "open"
  /\ asking' = IF k \in hub THEN asking \cup {k} ELSE asking
  /\ UNCHANGED <<page, shown, hub, subs, refused, down, world>>

\* onmessage: the next line goes to the page's log, whichever stream it is of.
OnMessage(k) ==
  /\ phase[k] = "open" /\ down[k] # <<>>
  /\ down' = [down EXCEPT ![k] = Tail(@)]
  /\ shown' = Append(shown, Head(down[k]))
  /\ UNCHANGED <<page, phase, status, hub, subs, refused, asking, world>>

\* Mutant of AfterClose: a stream the API does not answer gives up.
GiveUp(k) == IF disposed[k] \/ ~apiUp THEN "idle" ELSE "timer"

\* onclose: the status, and the timer of a stream that is not disposed.
AfterClose(k) == IF disposed[k] THEN "idle" ELSE "timer"

OnClose(k) ==
  /\ phase[k] = "closing" /\ k \notin hub
  /\ phase' = [phase EXCEPT ![k] = AfterClose(k)]
  /\ status' = IF active = NoServer THEN status ELSE "closed"
  /\ UNCHANGED <<page, shown, hubs, world>>

\* The timer fires after 2 s: connect() again, unless disposed.
Reconnect(k) ==
  /\ phase[k] = "timer"
  /\ phase' = [phase EXCEPT ![k] = IF disposed[k] THEN "idle" ELSE "connecting"]
  /\ status' = IF disposed[k] THEN status ELSE "connecting"
  /\ UNCHANGED <<page, shown, hubs, world>>

\* The connection is refused: onerror, and onclose will follow.
ConnectFails(k) ==
  /\ phase[k] = "connecting" /\ ~apiUp
  /\ phase' = [phase EXCEPT ![k] = "closing"]
  /\ status' = "error"
  /\ UNCHANGED <<page, shown, hubs, world>>

-----------------------------------------------------------------------------
(* The API.                                                                 *)

\* The upgrade, then handleConnection: a valid token puts the socket in the
\* set of clients, without a topic; with an invalid one it is closed at once,
\* though the browser may see it open first.
Upgrade(k) ==
  /\ phase[k] = "connecting" /\ apiUp
  /\ phase' = [phase EXCEPT ![k] = "accepted"]
  /\ hub' = IF tokenOk THEN hub \cup {k} ELSE hub
  /\ UNCHANGED <<page, view, subs, refused, asking, down, world>>
Reject(k) ==
  /\ phase[k] \in {"accepted", "open"} /\ k \notin hub
  /\ phase' = [phase EXCEPT ![k] = "closing"]
  /\ UNCHANGED <<page, view, hubs, world>>

\* A SUBSCRIBE: canSubscribe decides, once, whether the topic is added.
\* Nothing is ever taken off when the right ends.
canSubscribe(s) == s \in allowed
Subscribe(k) ==
  /\ k \in asking
  /\ asking' = asking \ {k}
  /\ IF canSubscribe(server[k])
       THEN subs' = subs \cup {k} /\ UNCHANGED refused
       ELSE refused' = refused \cup {k} /\ UNCHANGED subs
  /\ UNCHANGED <<page, phase, view, hub, down, world>>

\* The close event of a socket: the client leaves the set.
HubSeesClose(k) ==
  /\ phase[k] = "closing" /\ k \in hub
  /\ Dropped({k})
  /\ UNCHANGED <<page, phase, view, world>>

\* Mutant of Receivers: the topic is ignored.
AllReceivers(s) == subs

\* The streams a line of server s is sent to.
Receivers(s) == {k \in subs : server[k] = s}

\* A line of server s arrives from the agent and is broadcast.
Broadcast(s) ==
  /\ lines < MaxLines
  /\ lines' = lines + 1
  /\ down' = [k \in Streams |->
                IF k \in Receivers(s) THEN Append(down[k], <<s, lines'>>)
                                      ELSE down[k]]
  /\ UNCHANGED <<page, phase, view, hub, subs, refused, asking, allowed,
                 tokenOk, apiUp, breaks>>

-----------------------------------------------------------------------------
(* What else may happen.                                                    *)

\* A connection breaks: what is on its way is lost, both ends see a close.
Break(k) ==
  /\ phase[k] \in {"accepted", "open"} /\ breaks < MaxBreaks
  /\ breaks' = breaks + 1
  /\ phase' = [phase EXCEPT ![k] = "closing"]
  /\ Dropped({k})
  /\ UNCHANGED <<page, view, lines, allowed, tokenOk, apiUp>>

\* The API process ends: the set of clients was in its memory.
ApiStops ==
  /\ apiUp /\ breaks < MaxBreaks
  /\ apiUp' = FALSE /\ breaks' = breaks + 1
  /\ phase' = [k \in Streams |->
                 IF phase[k] \in {"accepted", "open"} THEN "closing"
                 ELSE phase[k]]
  /\ Dropped(Streams)
  /\ UNCHANGED <<page, view, lines, allowed, tokenOk>>
ApiStarts ==
  /\ ~apiUp /\ apiUp' = TRUE
  /\ UNCHANGED <<page, phase, view, hubs, lines, allowed, tokenOk, breaks>>

\* The server is deleted or the user loses it; 24 hours after the
\* login the token expires, and an open page never gets another.
LoseRight(s) ==
  /\ s \in allowed /\ allowed' = allowed \ {s}
  /\ UNCHANGED <<page, phase, view, hubs, lines, tokenOk, apiUp, breaks>>
Expire ==
  /\ tokenOk /\ tokenOk' = FALSE
  /\ UNCHANGED <<page, phase, view, hubs, lines, allowed, apiUp, breaks>>

StreamStep(k) ==
  \/ OnOpen(k) \/ OnMessage(k) \/ OnClose(k) \/ Reconnect(k)
  \/ ConnectFails(k) \/ Upgrade(k) \/ Reject(k) \/ Subscribe(k)
  \/ HubSeesClose(k)

Next ==
  \/ \E k \in Streams : StreamStep(k) \/ Break(k)
  \/ \E s \in Servers : Switch(s) \/ Broadcast(s) \/ LoseRight(s)
  \/ Leave \/ ApiStops \/ ApiStarts \/ Expire

Spec == Init /\ [][Next]_vars

\* Timers fire, sockets deliver their events, and the API is started again.
FairSpec ==
  /\ Spec
  /\ \A k \in Streams : WF_vars(StreamStep(k))
  /\ WF_vars(ApiStarts)

-----------------------------------------------------------------------------
(* Properties.                                                              *)

\* The log of the page holds lines of the server it shows, in the order they
\* were broadcast and none twice, across reconnects and changes of server:
\* no line of an earlier stream slips in, no reconnect replays one.
ShownInOrder ==
  /\ \A i \in 1..Len(shown) : shown[i][1] = active
  /\ \A i \in 1..Len(shown) - 1 : shown[i][2] < shown[i + 1][2]

\* CONNECTED is never shown on the strength of another stream's socket: the
\* page's own stream is open, or its close event is about to correct the pill.
OpenIsReal ==
  status = "open" => phase[cur] \in {"open", "closing"} /\ ~disposed[cur]

\* At most one stream of the page holds on to the API: every other socket is
\* on its way out, and stays out.
OneStream ==
  \A k \in Streams : phase[k] \notin {"idle", "closing"} => k = cur

\* While the page shows a server its stream gets subscribed in the end, or is
\* told that it may not, however often the connection breaks and the API
\* restarts, unless the token expires.
StreamSettles ==
  \A k \in Streams :
    k = cur /\ active # NoServer
      ~> k \in subs \/ k \in refused \/ disposed[k] \/ ~tokenOk

=============================================================================
