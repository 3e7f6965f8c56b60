-------------------------------- MODULE Rcon ---------------------------------
(***************************************************************************)
(* Remote console commands: RconClient of the API (packages/bedrock) and   *)
(* the RCON client of the agent (internal/rcon), two implementations of    *)
(* one protocol.  A call dials, authenticates, sends its command, takes    *)
(* the answer and closes the connection.                                   *)
(*                                                                         *)
(* The API's calls overlap and share a counter of request ids; the agent   *)
(* makes one call at a time.  The game server answers as such servers do:  *)
(* with or without an empty packet before the reply to an authentication,  *)
(* in one packet or two, of the usual type or another, with packets of     *)
(* its own in between, or with a size that is none.                        *)
(*                                                                         *)
(* A packet is what tryParse or readPacket returns; the bytes, and how     *)
(* many of them a read gets, are abstracted: the size is looked at first,  *)
(* the rest when all of it is there.                                       *)
(***************************************************************************)
EXTENDS Integers, Sequences, FiniteSets

CONSTANTS
  ApiCalls, AgentCalls,  \* the calls of RconClient.execute and Client.Execute
  MaxId,                 \* the largest request id, 2^31 - 1
  First                  \* bound: what the counters of ids can start from

Calls == ApiCalls \cup AgentCalls

ASSUME RconAssumption ==
  /\ ApiCalls \cap AgentCalls = {} /\ IsFiniteSet(Calls)
  /\ MaxId \in Nat /\ MaxId >= 2 * Cardinality(Calls)
  /\ First \subseteq 1..MaxId

VARIABLES
  at,        \* where each call is
  id,        \* the request id of the packet each call sent last
  nextApi,   \* nextRequestId of rcon.ts
  nextAgent, \* Client.nextID
  server,    \* what the game server has to do for each connection
  accepted,  \* the connections it authenticated
  wire,      \* the packets on their way to each call
  output,    \* what each call has taken for its answer
  apiUp      \* the API process runs

client == <<at, id, nextApi, nextAgent, output>>
vars == <<client, server, accepted, wire, apiUp>>

AuthFailureId == -1
Unasked == 0     \* the id of a packet no call asked for

\* "reply" to an authentication, "part" of an answer, "other" packets; usual: the
\* type is RESPONSE or COMMAND; bad: the size is out of range.
Packet ==
  [id : AuthFailureId..MaxId, what : {"reply", "part", "other"},
   usual : BOOLEAN, bad : BOOLEAN]

Ended == {"answered", "failed"}

TypeOK ==
  /\ at \in [Calls -> {"none", "dialling", "auth", "command"} \cup Ended]
  /\ id \in [Calls -> 0..MaxId]
  /\ nextApi \in 1..MaxId + 1 /\ nextAgent \in 1..MaxId
  /\ server \in [Calls -> {"idle", "auth", "command", "closed"}]
  /\ accepted \subseteq Calls
  /\ wire \in [Calls -> Seq(Packet)]
  /\ output \in [Calls -> Seq({"reply", "part", "other"})]
  /\ apiUp \in BOOLEAN

\* Any number of calls was made before.
Init ==
  /\ at = [c \in Calls |-> "none"] /\ id = [c \in Calls |-> 0]
  /\ nextApi \in First /\ nextAgent \in First
  /\ server = [c \in Calls |-> "idle"] /\ accepted = {}
  /\ wire = [c \in Calls |-> <<>>] /\ output = [c \in Calls |-> <<>>]
  /\ apiUp = TRUE

-----------------------------------------------------------------------------
(* The clients.                                                             *)

\* Mutation: the counter is read and left as it is.
SameApiId == [id |-> IF nextApi > MaxId THEN 1 ELSE nextApi, next |-> nextApi]

\* allocId of rcon.ts and of client.go.
ApiId == IF nextApi > MaxId THEN [id |-> 1, next |-> 2]
                            ELSE [id |-> nextApi, next |-> nextApi + 1]
AgentId == IF nextAgent = MaxId THEN 1 ELSE nextAgent + 1

\* A packet with a new id is written, and the next read begins.
Write(c, stage) ==
  /\ at' = [at EXCEPT ![c] = stage]
  /\ server' = [server EXCEPT ![c] = IF @ = "closed" THEN @ ELSE stage]
  /\ IF c \in ApiCalls
     THEN /\ id' = [id EXCEPT ![c] = ApiId.id]
          /\ nextApi' = ApiId.next /\ UNCHANGED nextAgent
     ELSE /\ id' = [id EXCEPT ![c] = AgentId]
          /\ nextAgent' = AgentId /\ UNCHANGED nextApi

\* The calls in S end, and their connections with them.
Closed(S, how) ==
  /\ at' = [c \in Calls |-> IF c \in S THEN how ELSE at[c]]
  /\ id' = [c \in Calls |-> IF c \in S THEN 0 ELSE id[c]]
  /\ server' = [c \in Calls |-> IF c \in S THEN "closed" ELSE server[c]]
  /\ wire' = [c \in Calls |-> IF c \in S THEN <<>> ELSE wire[c]]
  /\ accepted' = IF how = "failed" THEN accepted \ S ELSE accepted
  /\ UNCHANGED <<nextApi, nextAgent>>

Fail(S) ==
  /\ Closed(S, "failed")
  /\ output' = [c \in Calls |-> IF c \in S THEN <<>> ELSE output[c]]

Answered(c, parts) ==
  /\ Closed({c}, "answered") /\ output' = [output EXCEPT ![c] = parts]
  /\ UNCHANGED apiUp

Runs(c) == c \in AgentCalls \/ apiUp
InProgress(c) == at[c] \notin {"none"} \cup Ended

Dial(c) ==
  /\ at[c] = "none" /\ Runs(c)
  /\ c \in AgentCalls => \A d \in AgentCalls : ~InProgress(d)
  /\ at' = [at EXCEPT ![c] = "dialling"]
  /\ UNCHANGED <<id, nextApi, nextAgent, output, server, accepted, wire, apiUp>>

\* The connection is made and the password sent.
Authenticate(c) ==
  /\ at[c] = "dialling" /\ Runs(c)
  /\ Write(c, "auth")
  /\ UNCHANGED <<output, accepted, wire, apiUp>>

\* The next packet of a call; its size is in range.
Incoming(c) == Head(wire[c])
Reads(c, stage) == at[c] = stage /\ Runs(c) /\ wire[c] # <<>> /\ ~Incoming(c).bad

\* The reply to the authentication: the first packet, whatever its type.
ReadReply(c) ==
  /\ Reads(c, "auth")
  /\ IF Incoming(c).id = id[c]
     THEN /\ Write(c, "command")
          /\ wire' = [wire EXCEPT ![c] = Tail(@)]
          /\ UNCHANGED <<output, accepted, apiUp>>
     ELSE Fail({c}) /\ UNCHANGED apiUp

\* RconClient.execute: the first packet is the answer, or the call fails.
ReadAnswer(c) ==
  /\ c \in ApiCalls /\ Reads(c, "command")
  /\ IF Incoming(c).id = id[c]
     THEN Answered(c, <<Incoming(c).what>>)
     ELSE Fail({c}) /\ UNCHANGED apiUp

\* sendCommand of client.go: packets of other ids are passed over, what is of
\* an unusual type is gathered.
Gather(c) ==
  /\ c \in AgentCalls /\ Reads(c, "command")
  /\ LET gathered == IF Incoming(c).id = id[c] THEN Append(output[c], Incoming(c).what) ELSE output[c]
     IN  \/ Incoming(c).id = AuthFailureId /\ Fail({c}) /\ UNCHANGED apiUp
         \/ Incoming(c).id = id[c] /\ Incoming(c).usual /\ Answered(c, gathered)
         \/ /\ Incoming(c).id # AuthFailureId /\ ~(Incoming(c).id = id[c] /\ Incoming(c).usual)
            /\ wire' = [wire EXCEPT ![c] = Tail(@)]
            /\ output' = [output EXCEPT ![c] = gathered]
            /\ UNCHANGED <<at, id, nextApi, nextAgent, server, accepted, apiUp>>

\* A size out of range ends a call of the agent.  In the API it throws where the
\* bytes arrive: within read(), which rejects, or in the data listener, where
\* nobody catches it and the process ends with all its calls.
BadSize(c) ==
  /\ at[c] \in {"auth", "command"} /\ Runs(c) /\ wire[c] # <<>> /\ Incoming(c).bad
  /\ \/ Fail({c}) /\ UNCHANGED apiUp
     \/ /\ c \in ApiCalls
        /\ Fail({d \in ApiCalls : InProgress(d)})
        /\ apiUp' = FALSE

\* The end of the stream: what was gathered is the answer after all.
ReadEnd(c) ==
  /\ at[c] \in {"auth", "command"} /\ Runs(c)
  /\ server[c] = "closed" /\ wire[c] = <<>>
  /\ \/ output[c] # <<>> /\ Answered(c, output[c])
     \/ output[c] = <<>> /\ Fail({c}) /\ UNCHANGED apiUp

\* Mutation: only dialling has a timer.
DialTimesOut(c) == at[c] = "dialling"

\* The timers of connectWithTimeout and withTimeout; DialTimeout and the deadline.
HasTimer(c) == InProgress(c)

\* The timer of what the call waits for, or an error of the connection.
Fails(c) ==
  /\ HasTimer(c) /\ Runs(c)
  /\ Fail({c}) /\ UNCHANGED apiUp

-----------------------------------------------------------------------------
(* The game server.                                                         *)

Sends(c, packets) == wire' = [wire EXCEPT ![c] = @ \o packets]
Usual(i, what) == [id |-> i, what |-> what, usual |-> TRUE, bad |-> FALSE]

\* It accepts the password or refuses it, after an empty packet or without one.
ServerReplies(c) ==
  /\ server[c] = "auth"
  /\ server' = [server EXCEPT ![c] = "idle"]
  /\ \E ok \in BOOLEAN, before \in {<<>>, <<Usual(id[c], "reply")>>} :
       /\ accepted' = IF ok THEN accepted \cup {c} ELSE accepted
       /\ Sends(c, before \o <<Usual(IF ok THEN id[c] ELSE AuthFailureId, "reply")>>)
  /\ UNCHANGED <<client, apiUp>>

\* It executes the command, if the connection is authenticated, and answers in one
\* packet or two, after one that nobody asked for or without it.
ServerAnswers(c) ==
  /\ server[c] = "command"
  /\ server' = [server EXCEPT ![c] = "idle"]
  /\ \E usual \in BOOLEAN, n \in 1..2, before \in {<<>>, <<Usual(Unasked, "other")>>} :
       LET part == [Usual(id[c], "part") EXCEPT !.usual = usual]
       IN  Sends(c, before \o IF c \in accepted THEN [i \in 1..n |-> part]
                              ELSE <<Usual(AuthFailureId, "other")>>)
  /\ UNCHANGED <<client, accepted, apiUp>>

\* It sends what is no packet, and no more after that.
ServerBabbles(c) ==
  /\ server[c] \in {"auth", "command"}
  /\ server' = [server EXCEPT ![c] = "closed"]
  /\ Sends(c, <<[Usual(Unasked, "other") EXCEPT !.bad = TRUE]>>)
  /\ UNCHANGED <<client, accepted, apiUp>>

ServerCloses(c) ==
  /\ InProgress(c) /\ server[c] # "closed"
  /\ server' = [server EXCEPT ![c] = "closed"]
  /\ UNCHANGED <<client, accepted, wire, apiUp>>

Next ==
  \E c \in Calls :
    \/ Dial(c) \/ Authenticate(c) \/ ReadReply(c) \/ ReadAnswer(c) \/ Gather(c)
    \/ BadSize(c) \/ ReadEnd(c) \/ Fails(c)
    \/ ServerReplies(c) \/ ServerAnswers(c) \/ ServerBabbles(c) \/ ServerCloses(c)

\* Timers fire.
Spec == Init /\ [][Next]_vars /\ \A c \in Calls : WF_vars(Fails(c))

-----------------------------------------------------------------------------
(* Properties.                                                              *)

\* A call that succeeds returns what the server sent in answer to its own command
\* on a connection it had authenticated, never the reply to an authentication or a
\* packet of somebody else, whatever the server puts in between and also where the
\* request ids start again.  (rcon.ts: "Never claims success when the
\* socket/auth/command path fails.")
AnswerIsOwn ==
  \A c \in Calls : at[c] = "answered" =>
    /\ c \in accepted
    /\ output[c] # <<>> /\ \A i \in 1..Len(output[c]) : output[c][i] = "part"

\* A call ends, however little the server says.
ExecutesEnd == \A c \in Calls : InProgress(c) ~> ~InProgress(c)

\* Both parts of an answer in two packets are returned.  (client.go: "Some servers
\* may split large responses; concatenate matching request IDs".)
AnswerIsWhole ==
  [][\A c \in AgentCalls : Gather(c) /\ at'[c] = "answered" => Len(wire[c]) = 1]_vars

=============================================================================
