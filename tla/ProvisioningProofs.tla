-------------------------- MODULE ProvisioningProofs --------------------------
(***************************************************************************)
(* The promises of port and DNS allocation for any number of servers,      *)
(* ports, labels, requests and restarts.  ClaimIsLeased is not inductive:  *)
(* what an allocation will claim when its DNS calls have returned must     *)
(* have stayed leased all along.  LiveIsTrue needs what the zone holds at  *)
(* each stage of a request.                                                *)
(***************************************************************************)
EXTENDS Provisioning, TLAPS

Stages == {"none", "A", "SRV", "done", "live", "stub"}

Asked ==
  [kind : {None, "network", "setup", "deploy"}, at : Stages, server : Servers \cup {None},
   label : Labels \cup {None}, port : Ports \cup {None}]

Types ==
  /\ leases \in [Ports -> Servers \cup {None}]
  /\ server \in [Servers -> [state : {"none", "active", "deleted"}, port : Ports \cup {None}]]
  /\ request \in [Requests -> Asked]
  /\ answer \in [Requests -> {"none", "live", "stub", "refused"}]
  /\ claim \in [Servers -> Ports \cup {None}]

\* A request has its answer last, and until then a server and a port.
Stepwise ==
  \A q \in Requests :
    /\ request[q].at = "none" => request[q] = Idle
    /\ request[q].at # "done" => answer[q] = "none"
    /\ q \in InFlight => /\ request[q].server \in Servers /\ request[q].port \in Ports
                         /\ request[q].kind \in {"network", "setup", "deploy"}

\* What an allocation is about to claim is leased to its server.
LeaseHeld ==
  \A q \in Allocating :
    request[q].server \notin raced => leases[request[q].port] = request[q].server

\* The routes allocate for servers there is a record of.
ServerKnown ==
  \A q \in Allocating :
    request[q].kind = "network" => server[request[q].server].state # "none"

\* What a request has posted is in the zone.
Posted ==
  \A q \in Requests :
    /\ request[q].at = "SRV" => DnsRecord(q, "A") \in zone
    /\ request[q].at = "live" => DnsRecord(q, "A") \in zone /\ DnsRecord(q, "SRV") \in zone

IInv ==
  /\ Types
  /\ Stepwise
  /\ LeaseHeld
  /\ ServerKnown
  /\ Posted
  /\ ClaimIsLeased
  /\ LeaseIsAccountedFor
  /\ LiveIsTrue

\* The initial states satisfy the invariant.
LEMMA InitIInv == Init => IInv
<1> SUFFICES ASSUME Init PROVE IInv
  OBVIOUS
<1> USE ProvisioningAssumption DEF Init, Idle, Stages, Asked
<1>1. Types
  BY DEF Types
<1>2. Stepwise /\ Posted /\ LiveIsTrue
  BY DEF Stepwise, Posted, LiveIsTrue, InFlight
<1>3. LeaseHeld /\ ServerKnown
  BY DEF LeaseHeld, ServerKnown, Allocating, InFlight
<1>4. ClaimIsLeased /\ LeaseIsAccountedFor
  BY DEF ClaimIsLeased, LeaseIsAccountedFor
<1> QED
  BY <1>1, <1>2, <1>3, <1>4 DEF IInv

-----------------------------------------------------------------------------
(* What the steps do *)

\* An allocation begins: a free port is leased to its server.
Begins(q, s, p) ==
  /\ request[q] = Idle
  /\ leases[p] = None
  /\ leases' = [leases EXCEPT ![p] = s]
  /\ \E k \in {"network", "setup", "deploy"}, a \in {"A", "done"}, l \in Labels :
       /\ request' = [request EXCEPT ![q] =
                        [kind |-> k, at |-> a, server |-> s, label |-> l, port |-> p]]
       /\ k = "network" => server[s].state # "none"
  /\ raced \subseteq raced'
  /\ UNCHANGED <<server, zone, answer, claim>>

\* A request is refused at once.
Refuses(q) ==
  /\ request[q] = Idle
  /\ request' = [request EXCEPT ![q] = [Idle EXCEPT !.at = "done"]]
  /\ answer' = [answer EXCEPT ![q] = "refused"]
  /\ UNCHANGED <<leases, server, zone, claim, raced>>

\* The first record was accepted.
Advances(q) ==
  /\ request[q].at = "A"
  /\ zone' = zone \cup {DnsRecord(q, "A")}
  /\ request' = [request EXCEPT ![q].at = "SRV"]
  /\ UNCHANGED <<leases, server, answer, claim, raced>>

\* The allocation has a result.
Finishes(q, r) ==
  /\ request[q].at \in {"A", "SRV", "done"} /\ answer[q] = "none"
  /\ r = "live" => request[q].at = "SRV" /\ DnsRecord(q, "SRV") \in zone'
  /\ zone \subseteq zone'
  /\ Completed(q, r)
  /\ UNCHANGED <<leases, raced>>

\* A request that had its result is answered.
Returns(q) ==
  /\ request[q].at \in {"live", "stub"}
  /\ request' = [request EXCEPT ![q].at = "done"]
  /\ \E r \in {request[q].at, "refused"} : answer' = [answer EXCEPT ![q] = r]
  /\ UNCHANGED <<leases, server, zone, claim, raced>>

\* A server's record appears or changes.
Recorded(s) ==
  /\ \E st \in {"active", "deleted"}, p \in Ports \cup {None} :
       server' = [server EXCEPT ![s] = [state |-> st, port |-> p]]
  /\ UNCHANGED <<leases, zone, request, answer, claim, raced>>

\* A server is released.
Releases(s) ==
  /\ leases' = Released(s)
  /\ claim' = [claim EXCEPT ![s] = None]
  /\ raced' = IF \E q \in Allocating : request[q].server = s THEN raced \cup {s} ELSE raced
  /\ UNCHANGED <<server, zone, request, answer>>

\* A request that is got on with stays what it is.
LEMMA GotOn ==
  ASSUME NEW x \in Asked, NEW a \in Stages
  PROVE  LET y == [x EXCEPT !.at = a]
         IN  /\ y \in Asked /\ y.at = a
             /\ y.kind = x.kind /\ y.server = x.server /\ y.label = x.label /\ y.port = x.port
BY DEF Asked

\* What happens to a request that gets on, and to the others.
LEMMA OneGetsOn ==
  ASSUME Types, NEW q \in Requests, NEW a \in Stages,
         request' = [request EXCEPT ![q].at = a]
  PROVE  /\ request' \in [Requests -> Asked]
         /\ request'[q].at = a
         /\ \A o \in Requests : o # q => request'[o] = request[o]
         /\ \A o \in Requests :
              /\ request'[o].kind = request[o].kind /\ request'[o].server = request[o].server
              /\ request'[o].label = request[o].label /\ request'[o].port = request[o].port
<1>1. request \in [Requests -> Asked] /\ request[q] \in Asked
  BY DEF Types
<1>2. request' = [request EXCEPT ![q] = [request[q] EXCEPT !.at = a]]
  BY <1>1
<1> QED
  BY <1>1, <1>2, GotOn

\* Every step does one of these things, or restarts the API.
LEMMA Moves ==
  ASSUME Types, Stepwise, [Next]_vars
  PROVE  \/ \E q \in Requests, s \in Servers, p \in Ports : Begins(q, s, p)
         \/ \E q \in Requests : Refuses(q) \/ Advances(q) \/ Returns(q)
         \/ \E q \in Requests, r \in {"live", "stub"} : q \in Allocating /\ Finishes(q, r)
         \/ \E s \in Servers : Recorded(s) \/ Releases(s)
         \/ Restart
         \/ UNCHANGED <<leases, server, zone, request, answer, claim, raced>>
<1>1. ASSUME NEW pref, NEW p \in Granted(pref) PROVE p \in Ports /\ leases[p] = None
  BY DEF Granted, FreePorts
<1>2. ASSUME NEW q \in Requests, NEW s \in Servers, NEW l \in Labels, NEW pref,
             Network(q, s, l, pref)
      PROVE  Refuses(q) \/ \E p \in Ports : Begins(q, s, p)
  <2>1. ASSUME NEW p \in Granted(pref), Allocate(q, "network", s, l, p),
               raced' = (IF \E o \in Allocating : request[o].server = s THEN raced \cup {s} ELSE raced),
               UNCHANGED answer
        PROVE  Begins(q, s, p)
    BY <1>1, <1>2, <2>1 DEF Network, Allocate, Begins, Active
  <2> QED
    BY <1>1, <1>2, <2>1 DEF Network, Refuses
<1>3. ASSUME NEW q \in Requests, NEW s \in Servers, NEW l \in Labels, NEW pref,
             Setup(q, s, l, pref)
      PROVE  \E p \in Ports : Begins(q, s, p)
  BY <1>1, <1>3 DEF Setup, Allocate, Begins
<1>4. ASSUME NEW q \in Requests, NEW s \in Servers, NEW l \in Labels, DeployFullStack(q, s, l)
      PROVE  Refuses(q) \/ \E p \in Ports : Begins(q, s, p)
  BY <1>1, <1>4 DEF DeployFullStack, Allocate, Begins, Refuses
<1>5. ASSUME NEW q \in Requests, request[q].at \in {"A", "SRV"} PROVE q \in Allocating /\ answer[q] = "none"
  BY <1>5 DEF Stepwise, Allocating, InFlight
<1>6. ASSUME NEW q \in Requests, Post(q)
      PROVE  Advances(q) \/ (q \in Allocating /\ Finishes(q, "live"))
  BY <1>5, <1>6 DEF Post, Advances, Finishes
<1>7. ASSUME NEW q \in Requests, PostFails(q) PROVE q \in Allocating /\ Finishes(q, "stub")
  BY <1>5, <1>7 DEF PostFails, Finishes
<1>8. ASSUME NEW q \in Requests, StubReturns(q) PROVE q \in Allocating /\ Finishes(q, "stub")
  BY <1>8 DEF StubReturns, Finishes, Allocating, InFlight
<1>9. ASSUME NEW q \in Requests, SetupEnds(q) \/ Deployed(q) PROVE Returns(q)
  BY <1>9 DEF SetupEnds, Deployed, Returns, AgentAsked
<1>10. ASSUME NEW s \in Servers, NEW l, Deallocate(s, l) PROVE Releases(s)
  BY <1>10 DEF Deallocate, ReleaseAll, Releases
<1>11. ASSUME NEW s \in Servers, NEW p \in Ports, CreateServer(s, p) PROVE Recorded(s)
  BY <1>11 DEF CreateServer, Recorded
<1>12. ASSUME NEW s \in Servers, DeleteServer(s) PROVE Recorded(s)
  <2>1. server' = [server EXCEPT ![s] = [state |-> "deleted", port |-> server[s].port]]
    <3>1. server[s] \in [state : {"none", "active", "deleted"}, port : Ports \cup {None}]
      BY DEF Types
    <3>2. [server[s] EXCEPT !.state = "deleted"] = [state |-> "deleted", port |-> server[s].port]
      BY <3>1
    <3>3. server' = [server EXCEPT ![s] = [server[s] EXCEPT !.state = "deleted"]]
      BY <1>12, <3>1 DEF DeleteServer
    <3> QED
      BY <3>2, <3>3
  <2>2. server[s].port \in Ports \cup {None}
    BY DEF Types
  <2> QED
    BY <1>12, <2>1, <2>2 DEF DeleteServer, Recorded
<1>13. ASSUME NEW q \in Requests, SetupRejects(q) PROVE Restart
  BY <1>13 DEF SetupRejects
<1>14. ASSUME NEW p, SetupThrows(p) PROVE Restart
  BY <1>14 DEF SetupThrows
<1>15. CASE UNCHANGED vars
  BY <1>15 DEF vars
<1> QED
  BY <1>2, <1>3, <1>4, <1>6, <1>7, <1>8, <1>9, <1>10, <1>11, <1>12, <1>13, <1>14, <1>15
     DEF Next

\* The parts of an allocation that has a result.
LEMMA FinishedParts ==
  ASSUME Types, Stepwise, NEW q \in Allocating, NEW r \in {"live", "stub"}, Finishes(q, r)
  PROVE  LET s == request[q].server IN
         /\ q \in Requests /\ s \in Servers /\ request[q].port \in Ports
         /\ \/ /\ request' = [request EXCEPT ![q].at = "done"]
               /\ answer' = [answer EXCEPT ![q] = r]
            \/ /\ request' = [request EXCEPT ![q].at = r]
               /\ answer' = answer
         /\ \E st \in {"none", "active", "deleted"} :
              /\ server' = [server EXCEPT ![s] = [state |-> st, port |-> request[q].port]]
              /\ request[q].kind # "network" => st = "active"
              /\ request[q].kind = "network" => st = server[s].state
         /\ claim' = [claim EXCEPT ![s] = request[q].port]
         /\ UNCHANGED <<leases, raced>>
<1>1. q \in Requests /\ request[q].server \in Servers /\ request[q].port \in Ports
  BY DEF Stepwise, Allocating, InFlight
<1>2. server[request[q].server].state \in {"none", "active", "deleted"}
  BY <1>1 DEF Types
<1>3. UNCHANGED <<leases, raced>> /\ claim' = [claim EXCEPT ![request[q].server] = request[q].port]
  BY DEF Finishes, Completed
<1>4. CASE request[q].kind = "network"
  <2>1. server' = [server EXCEPT ![request[q].server] =
                     [state |-> server[request[q].server].state, port |-> request[q].port]]
    BY <1>1, <1>4 DEF Finishes, Completed, Types
  <2>2. /\ request' = [request EXCEPT ![q].at = "done"]
        /\ answer' = [answer EXCEPT ![q] = r]
    BY <1>4 DEF Finishes, Completed
  <2> QED
    BY <1>1, <1>2, <1>3, <1>4, <2>1, <2>2
<1>5. CASE request[q].kind # "network"
  <2>1. server' = [server EXCEPT ![request[q].server] =
                     [state |-> "active", port |-> request[q].port]]
    BY <1>1, <1>5 DEF Finishes, Completed, Types
  <2>2. request' = [request EXCEPT ![q].at = r] /\ answer' = answer
    BY <1>5 DEF Finishes, Completed
  <2> QED
    BY <1>1, <1>2, <1>3, <1>5, <2>1, <2>2
<1> QED
  BY <1>4, <1>5

\* An allocation that has a result is none any more, and the others go on.
LEMMA FinishedIsOver ==
  ASSUME Types, Stepwise, NEW q \in Allocating, NEW r \in {"live", "stub"}, Finishes(q, r)
  PROVE  \A o \in Allocating' : o # q /\ o \in Allocating /\ request'[o] = request[o]
<1>1. q \in Requests
  BY FinishedParts
<1>2. CASE request' = [request EXCEPT ![q].at = "done"] /\ answer' = [answer EXCEPT ![q] = r]
  <2>1. \A o \in Requests : o # q => request'[o] = request[o] /\ answer'[o] = answer[o]
    BY <1>1, <1>2, OneGetsOn DEF Stages, Types
  <2>2. answer'[q] # "none"
    BY <1>1, <1>2 DEF Types
  <2> QED
    BY <2>1, <2>2 DEF Allocating, InFlight
<1>3. CASE request' = [request EXCEPT ![q].at = r] /\ answer' = answer
  <2>1. request'[q].at = r /\ \A o \in Requests : o # q => request'[o] = request[o]
    BY <1>1, <1>3, OneGetsOn DEF Stages
  <2> QED
    BY <1>3, <2>1 DEF Allocating, InFlight
<1> QED
  BY <1>2, <1>3, FinishedParts

\* What a restart leaves: no allocation is under way, nothing is claimed or leased.
LEMMA AfterRestart ==
  ASSUME Types, Stepwise, Restart
  PROVE  /\ Allocating' = {}
         /\ \A q \in Requests :
              /\ request'[q].at = "none" => request[q].at = "none"
              /\ request'[q].at \in {"none", "done"}
              /\ request'[q].label = request[q].label /\ request'[q].port = request[q].port
         /\ \A q \in Requests : answer'[q] = answer[q] \/ answer'[q] = "refused"
<1>1. \A q \in Requests : q \in InFlight => answer'[q] = "refused"
  BY DEF Restart, InFlight
<1>2. \A q \in Requests : q \notin InFlight => request'[q] = request[q] /\ answer'[q] = answer[q]
  BY DEF Restart, InFlight
<1>3. \A q \in Requests : q \in InFlight => request'[q] = [request[q] EXCEPT !.at = "done"]
  BY DEF Restart, InFlight
<1>4. ASSUME NEW q \in Requests, q \in InFlight
      PROVE  /\ request'[q].at = "done" /\ request'[q].label = request[q].label
             /\ request'[q].port = request[q].port
  <2>1. request[q] \in Asked /\ "done" \in Stages
    BY DEF Types, Stages
  <2> QED
    BY <1>3, <1>4, <2>1 DEF Asked
<1>5. ASSUME NEW q \in Requests, q \notin InFlight
      PROVE  request[q].at \in {"none", "done"}
  BY <1>5 DEF InFlight, Stepwise
<1>6. \A q \in Requests : q \notin InFlight => request[q].at = "none" \/ answer[q] # "none"
  BY DEF InFlight
<1>7. Allocating' = {}
  BY <1>1, <1>2, <1>6 DEF Allocating, InFlight
<1> QED
  BY <1>1, <1>2, <1>4, <1>5, <1>7

-----------------------------------------------------------------------------
(* Types and stages *)

\* Every step keeps the types.
LEMMA TypesStep == IInv /\ [Next]_vars => Types'
<1> SUFFICES ASSUME IInv, [Next]_vars PROVE Types'
  OBVIOUS
<1>0. Types /\ Stepwise
  BY DEF IInv
<1> USE DEF Stages
<1>1. ASSUME NEW q \in Requests, NEW s \in Servers, NEW p \in Ports, Begins(q, s, p)
      PROVE  Types'
  BY <1>0, <1>1 DEF Begins, Asked, Types
<1>2. ASSUME NEW q \in Requests, Refuses(q) \/ Advances(q) \/ Returns(q) PROVE Types'
  <2>1. CASE Refuses(q)
    <3>1. [Idle EXCEPT !.at = "done"] \in Asked
      BY DEF Idle, Asked
    <3> QED
      BY <1>0, <2>1, <3>1 DEF Refuses, Types
  <2>2. CASE Advances(q)
    <3>1. request' \in [Requests -> Asked]
      BY <1>0, <2>2, OneGetsOn DEF Advances
    <3> QED
      BY <1>0, <2>2, <3>1 DEF Advances, Types
  <2>3. CASE Returns(q)
    <3>1. request' \in [Requests -> Asked]
      BY <1>0, <2>3, OneGetsOn DEF Returns
    <3>2. PICK a \in {"live", "stub", "refused"} : answer' = [answer EXCEPT ![q] = a]
      BY <2>3 DEF Returns
    <3> QED
      BY <1>0, <2>3, <3>1, <3>2 DEF Returns, Types
  <2> QED
    BY <1>2, <2>1, <2>2, <2>3
<1>3. ASSUME NEW q \in Requests, NEW r \in {"live", "stub"}, q \in Allocating, Finishes(q, r)
      PROVE  Types'
  <2>1. /\ request[q].server \in Servers /\ request[q].port \in Ports
        /\ answer' \in {answer, [answer EXCEPT ![q] = r]}
        /\ \E a \in Stages : request' = [request EXCEPT ![q].at = a]
        /\ claim' = [claim EXCEPT ![request[q].server] = request[q].port]
        /\ UNCHANGED leases
    BY <1>0, <1>3, FinishedParts
  <2>2. PICK st \in {"none", "active", "deleted"} :
          server' = [server EXCEPT ![request[q].server] =
                       [state |-> st, port |-> request[q].port]]
    BY <1>0, <1>3, FinishedParts
  <2>3. request' \in [Requests -> Asked]
    BY <1>0, <2>1, OneGetsOn
  <2>4. server' \in [Servers -> [state : {"none", "active", "deleted"}, port : Ports \cup {None}]]
    BY <1>0, <2>1, <2>2 DEF Types
  <2>5. answer' \in [Requests -> {"none", "live", "stub", "refused"}]
    BY <1>0, <2>1 DEF Types
  <2> QED
    BY <1>0, <2>1, <2>3, <2>4, <2>5 DEF Types
<1>4. ASSUME NEW s \in Servers, Recorded(s) PROVE Types'
  BY <1>0, <1>4 DEF Recorded, Types
<1>5. ASSUME NEW s \in Servers, Releases(s) PROVE Types'
  BY <1>0, <1>5 DEF Releases, Released, Types
<1>6. CASE Restart
  <2>1. ASSUME NEW q \in Requests PROVE [request[q] EXCEPT !.at = "done"] \in Asked
    BY <1>0, GotOn DEF Types
  <2>2. request' \in [Requests -> Asked] /\ answer' \in [Requests -> {"none", "live", "stub", "refused"}]
    BY <1>0, <1>6, <2>1 DEF Restart, Types
  <2> QED
    BY <1>0, <1>6, <2>2 DEF Restart, Types
<1>7. CASE UNCHANGED <<leases, server, zone, request, answer, claim, raced>>
  BY <1>0, <1>7 DEF Types
<1> QED
  BY <1>0, <1>1, <1>2, <1>3, <1>4, <1>5, <1>6, <1>7, Moves

\* Every step keeps the order in which a request gets on.
LEMMA StepwiseStep == IInv /\ [Next]_vars => Stepwise'
<1> SUFFICES ASSUME IInv, [Next]_vars PROVE Stepwise'
  OBVIOUS
<1>0. Types /\ Stepwise
  BY DEF IInv
<1> USE DEF Stepwise, InFlight
<1>1. ASSUME NEW q \in Requests, NEW s \in Servers, NEW p \in Ports, Begins(q, s, p)
      PROVE  Stepwise'
  BY <1>0, <1>1 DEF Begins, Idle, Types
<1>2. ASSUME NEW q \in Requests, Refuses(q) PROVE Stepwise'
  BY <1>0, <1>2 DEF Refuses, Idle, Types
<1>3. ASSUME NEW q \in Requests, Advances(q) PROVE Stepwise'
  BY <1>0, <1>3 DEF Advances, Types
<1>4. ASSUME NEW q \in Requests, Returns(q) PROVE Stepwise'
  BY <1>0, <1>4 DEF Returns, Types
<1>5. ASSUME NEW q \in Requests, NEW r \in {"live", "stub"}, q \in Allocating, Finishes(q, r)
      PROVE  Stepwise'
  <2> HIDE DEF Stepwise, InFlight
  <2>0. \/ /\ request' = [request EXCEPT ![q].at = "done"]
           /\ answer' = [answer EXCEPT ![q] = r]
        \/ /\ request' = [request EXCEPT ![q].at = r]
           /\ answer' = answer
    BY <1>0, <1>5, FinishedParts
  <2> USE DEF Stepwise, InFlight
  <2>1. CASE /\ request' = [request EXCEPT ![q].at = "done"]
             /\ answer' = [answer EXCEPT ![q] = r]
    BY <1>0, <2>1, OneGetsOn DEF Types, Stages
  <2>2. CASE /\ request' = [request EXCEPT ![q].at = r]
             /\ answer' = answer
    BY <1>0, <1>5, <2>2, OneGetsOn DEF Types, Stages, Allocating
  <2> QED
    BY <2>0, <2>1, <2>2
<1>6. CASE Restart
  BY <1>0, <1>6 DEF Restart, Types
<1>7. CASE UNCHANGED <<request, answer>>
  BY <1>0, <1>7
<1> HIDE DEF Stepwise
<1> QED
  BY <1>0, <1>1, <1>2, <1>3, <1>4, <1>5, <1>6, <1>7, Moves DEF Recorded, Releases

-----------------------------------------------------------------------------
(* Leases and claims *)

\* Every step keeps leased what an allocation will claim.
LEMMA HeldStep == IInv /\ [Next]_vars => LeaseHeld'
<1> SUFFICES ASSUME IInv, [Next]_vars PROVE LeaseHeld'
  OBVIOUS
<1>0. Types /\ Stepwise /\ LeaseHeld
  BY DEF IInv
<1> USE DEF LeaseHeld, Allocating, InFlight
<1>1. ASSUME NEW q \in Requests, NEW s \in Servers, NEW p \in Ports, Begins(q, s, p)
      PROVE  LeaseHeld'
  <2> SUFFICES ASSUME NEW o \in Allocating', request'[o].server \notin raced'
               PROVE  leases'[request'[o].port] = request'[o].server
    OBVIOUS
  <2>1. CASE o = q
    BY <1>0, <1>1, <2>1 DEF Begins, Types
  <2>2. CASE o # q
    <3>1. request'[o] = request[o] /\ o \in Allocating /\ request[o].server \notin raced
      BY <1>0, <1>1, <2>2 DEF Begins, Types
    <3>2. leases[request[o].port] = request[o].server /\ request[o].server \in Servers
      BY <1>0, <3>1 DEF Stepwise
    <3>3. request[o].port # p /\ request[o].port \in Ports
      BY <1>0, <1>1, <3>1, <3>2, ProvisioningAssumption DEF Begins, Stepwise
    <3> QED
      BY <1>0, <1>1, <3>1, <3>2, <3>3 DEF Begins, Types
  <2> QED
    BY <2>1, <2>2
<1>2. ASSUME NEW q \in Requests, Refuses(q) PROVE LeaseHeld'
  BY <1>0, <1>2 DEF Refuses, Types
<1>3. ASSUME NEW q \in Requests, Advances(q) PROVE LeaseHeld'
  BY <1>0, <1>3 DEF Advances, Types, Stepwise
<1>4. ASSUME NEW q \in Requests, Returns(q) PROVE LeaseHeld'
  BY <1>0, <1>4 DEF Returns, Types
<1>5. ASSUME NEW q \in Requests, NEW r \in {"live", "stub"}, q \in Allocating, Finishes(q, r)
      PROVE  LeaseHeld'
  <2>1. UNCHANGED <<leases, raced>>
    BY <1>5 DEF Finishes
  <2> HIDE DEF Allocating, InFlight
  <2>2. \A o \in Allocating' : request'[o] = request[o] /\ o \in Allocating
    BY <1>0, <1>5, FinishedIsOver
  <2> QED
    BY <1>0, <2>1, <2>2
<1>6. ASSUME NEW s \in Servers, Releases(s) PROVE LeaseHeld'
  <2> SUFFICES ASSUME NEW o \in Allocating', request'[o].server \notin raced'
               PROVE  leases'[request'[o].port] = request'[o].server
    OBVIOUS
  <2>1. o \in Allocating /\ request'[o] = request[o]
    BY <1>6 DEF Releases
  <2>2. request[o].server # s /\ request[o].server \notin raced
    BY <1>6, <2>1 DEF Releases
  <2>3. leases[request[o].port] = request[o].server /\ request[o].port \in Ports
    BY <1>0, <2>1, <2>2 DEF Stepwise
  <2> QED
    BY <1>6, <2>1, <2>2, <2>3 DEF Releases, Released
<1>7. CASE Restart
  BY <1>0, <1>7, AfterRestart
<1>8. CASE UNCHANGED <<leases, request, answer, raced>>
  BY <1>0, <1>8
<1> HIDE DEF LeaseHeld, Allocating, InFlight
<1> QED
  BY <1>0, <1>1, <1>2, <1>3, <1>4, <1>5, <1>6, <1>7, <1>8, Moves DEF Recorded

\* Every step keeps the record of a server the routes allocate for.
LEMMA KnownStep == IInv /\ [Next]_vars => ServerKnown'
<1> SUFFICES ASSUME IInv, [Next]_vars, NEW o \in Allocating', request'[o].kind = "network"
             PROVE  server'[request'[o].server].state # "none"
  BY DEF ServerKnown
<1>0. Types /\ Stepwise /\ ServerKnown
  BY DEF IInv
<1> USE DEF Allocating, InFlight
<1>1. ASSUME o \in Allocating, request'[o].kind = request[o].kind,
             request'[o].server = request[o].server,
             \A s \in Servers : server'[s] = server[s] \/ server'[s].state # "none"
      PROVE  server'[request'[o].server].state # "none"
  <2>1. server[request[o].server].state # "none" /\ request[o].server \in Servers
    BY <1>0, <1>1 DEF ServerKnown, Stepwise
  <2> QED
    BY <1>1, <2>1
<1>2. ASSUME NEW q \in Requests, NEW s \in Servers, NEW p \in Ports, Begins(q, s, p)
      PROVE  server'[request'[o].server].state # "none"
  <2>1. CASE o = q
    BY <1>0, <1>2, <2>1 DEF Begins, Types
  <2>2. CASE o # q
    BY <1>0, <1>1, <1>2, <2>2 DEF Begins, Types
  <2> QED
    BY <2>1, <2>2
<1>3. ASSUME NEW q \in Requests, Refuses(q) \/ Advances(q) \/ Returns(q)
      PROVE  server'[request'[o].server].state # "none"
  <2>1. CASE Refuses(q)
    BY <1>0, <1>1, <2>1 DEF Refuses, Types, Idle
  <2>2. CASE Advances(q)
    <3>1. /\ request'[o].kind = request[o].kind /\ request'[o].server = request[o].server
          /\ o # q => request'[o] = request[o]
      BY <1>0, <2>2, OneGetsOn DEF Advances, Stages
    <3> QED
      BY <1>0, <1>1, <2>2, <3>1 DEF Advances, Stepwise
  <2>3. CASE Returns(q)
    <3>1. o # q
      BY <1>0, <2>3 DEF Returns, Types
    <3>2. request'[o] = request[o] /\ answer'[o] = answer[o]
      BY <1>0, <2>3, <3>1, OneGetsOn DEF Returns, Stages, Types
    <3> QED
      BY <1>1, <2>3, <3>2 DEF Returns
  <2> QED
    BY <1>3, <2>1, <2>2, <2>3
<1>4. ASSUME NEW q \in Requests, NEW r \in {"live", "stub"}, q \in Allocating, Finishes(q, r)
      PROVE  server'[request'[o].server].state # "none"
  <2> HIDE DEF Allocating, InFlight
  <2>2. o \in Allocating /\ request'[o] = request[o]
    BY <1>0, <1>4, FinishedIsOver
  <2>3. \A s \in Servers : server'[s] = server[s] \/ server'[s].state # "none"
    <3>1. request[q].kind = "network" => server[request[q].server].state # "none"
      BY <1>0, <1>4 DEF ServerKnown
    <3>2. request[q].server \in Servers
      BY <1>0, <1>4, FinishedParts
    <3>3. PICK st \in {"none", "active", "deleted"} :
            /\ server' = [server EXCEPT ![request[q].server] =
                            [state |-> st, port |-> request[q].port]]
            /\ request[q].kind # "network" => st = "active"
            /\ request[q].kind = "network" => st = server[request[q].server].state
      BY <1>0, <1>4, FinishedParts
    <3> QED
      BY <1>0, <3>1, <3>2, <3>3 DEF Types
  <2> QED
    BY <1>1, <2>2, <2>3
<1>5. ASSUME NEW s \in Servers, Recorded(s)
      PROVE  server'[request'[o].server].state # "none"
  <2>1. \A t \in Servers : server'[t] = server[t] \/ server'[t].state # "none"
    BY <1>0, <1>5 DEF Recorded, Types
  <2> QED
    BY <1>1, <1>5, <2>1 DEF Recorded
<1>6. CASE Restart
  BY <1>0, <1>6, AfterRestart
<1>7. CASE UNCHANGED <<server, request, answer>>
  BY <1>1, <1>7
<1> HIDE DEF Allocating, InFlight
<1> QED
  BY <1>0, <1>2, <1>3, <1>4, <1>5, <1>6, <1>7, Moves DEF Releases

\* Every step keeps the ports that were allocated leased to their servers.
LEMMA ClaimStep == IInv /\ [Next]_vars => ClaimIsLeased'
<1> SUFFICES ASSUME IInv, [Next]_vars,
                    NEW s \in Servers, s \notin raced', claim'[s] # None
             PROVE  leases'[claim'[s]] = s
  BY DEF ClaimIsLeased
<1>0. Types /\ Stepwise /\ LeaseHeld /\ ClaimIsLeased
  BY DEF IInv
<1>1. ASSUME claim'[s] = claim[s], s \notin raced,
             \A p \in Ports : leases[p] = s => leases'[p] = s
      PROVE  leases'[claim'[s]] = s
  BY <1>0, <1>1 DEF ClaimIsLeased, Types
<1>2. ASSUME NEW q \in Requests, NEW t \in Servers, NEW p \in Ports, Begins(q, t, p)
      PROVE  leases'[claim'[s]] = s
  <2>1. \A o \in Ports : leases[o] = s => leases'[o] = s
    BY <1>0, <1>2, ProvisioningAssumption DEF Begins, Types
  <2> QED
    BY <1>1, <1>2, <2>1 DEF Begins
<1>3. ASSUME NEW q \in Requests, Refuses(q) \/ Advances(q) \/ Returns(q)
      PROVE  leases'[claim'[s]] = s
  BY <1>1, <1>3 DEF Refuses, Advances, Returns
<1>4. ASSUME NEW q \in Requests, NEW r \in {"live", "stub"}, q \in Allocating, Finishes(q, r)
      PROVE  leases'[claim'[s]] = s
  <2>1. claim' = [claim EXCEPT ![request[q].server] = request[q].port] /\ UNCHANGED <<leases, raced>>
    BY <1>0, <1>4, FinishedParts
  <2>2. CASE s = request[q].server
    BY <1>0, <1>4, <2>1, <2>2 DEF LeaseHeld, Types
  <2>3. CASE s # request[q].server
    BY <1>0, <1>1, <2>1, <2>3 DEF Types
  <2> QED
    BY <2>2, <2>3
<1>5. ASSUME NEW t \in Servers, Recorded(t) PROVE leases'[claim'[s]] = s
  BY <1>1, <1>5 DEF Recorded
<1>6. ASSUME NEW t \in Servers, Releases(t) PROVE leases'[claim'[s]] = s
  <2>1. s # t /\ claim'[s] = claim[s]
    BY <1>0, <1>6 DEF Releases, Types
  <2>2. s \notin raced
    BY <1>6 DEF Releases
  <2>3. \A o \in Ports : leases[o] = s => leases'[o] = s
    BY <1>6, <2>1 DEF Releases, Released
  <2> QED
    BY <1>1, <2>1, <2>2, <2>3
<1>7. CASE Restart
  BY <1>7 DEF Restart
<1>8. CASE UNCHANGED <<leases, claim, raced>>
  BY <1>1, <1>8
<1> QED
  BY <1>0, <1>2, <1>3, <1>4, <1>5, <1>6, <1>7, <1>8, Moves

\* Every step accounts for every lease.
LEMMA AccountedStep == IInv /\ [Next]_vars => LeaseIsAccountedFor'
<1> SUFFICES ASSUME IInv, [Next]_vars, NEW p \in Ports, leases'[p] # None
             PROVE  \/ server'[leases'[p]].state # "none"
                    \/ \E o \in Allocating' : request'[o].server = leases'[p]
  BY DEF LeaseIsAccountedFor
<1> DEFINE Accounted == \/ server'[leases'[p]].state # "none"
                        \/ \E o \in Allocating' : request'[o].server = leases'[p]
<1>0. Types /\ Stepwise /\ ServerKnown /\ LeaseIsAccountedFor
  BY DEF IInv
<1>1. ASSUME leases'[p] = leases[p],
             \A s \in Servers : server'[s] = server[s] \/ server'[s].state # "none",
             \A o \in Allocating : \/ o \in Allocating' /\ request'[o].server = request[o].server
                                  \/ server'[request[o].server].state # "none"
      PROVE  Accounted
  <2>1. leases[p] \in Servers
    BY <1>0, <1>1 DEF Types
  <2> QED
    BY <1>0, <1>1, <2>1 DEF LeaseIsAccountedFor
<1>2. ASSUME NEW q \in Requests, NEW s \in Servers, NEW o \in Ports, Begins(q, s, o)
      PROVE  Accounted
  <2>1. q \in Allocating' /\ request'[q].server = s
    <3>1. answer[q] = "none"
      BY <1>0, <1>2 DEF Begins, Stepwise, Idle
    <3>2. request'[q].server = s /\ request'[q].at \in {"A", "done"}
      BY <1>0, <1>2 DEF Begins, Types
    <3> QED
      BY <1>2, <3>1, <3>2 DEF Begins, Allocating, InFlight
  <2>2. CASE p = o
    BY <1>0, <1>2, <2>1, <2>2 DEF Begins, Types
  <2>3. CASE p # o
    <3>1. leases'[p] = leases[p] /\ server' = server
      BY <1>0, <1>2, <2>3 DEF Begins, Types
    <3>2. \A c \in Allocating : c # q
      BY <1>2 DEF Begins, Idle, Allocating, InFlight
    <3>3. \A c \in Allocating : c \in Allocating' /\ request'[c] = request[c]
      BY <1>0, <1>2, <3>2 DEF Begins, Allocating, InFlight, Types
    <3> QED
      BY <1>1, <3>1, <3>3
  <2> QED
    BY <2>2, <2>3
<1>3. ASSUME NEW q \in Requests, Refuses(q) PROVE Accounted
  <2>1. \A c \in Allocating : c # q
    BY <1>3 DEF Refuses, Idle, Allocating, InFlight
  <2>2. \A c \in Allocating : c \in Allocating' /\ request'[c] = request[c]
    BY <1>0, <1>3, <2>1 DEF Refuses, Allocating, InFlight, Types
  <2> QED
    BY <1>1, <1>3, <2>2 DEF Refuses
<1>4. ASSUME NEW q \in Requests, Advances(q) PROVE Accounted
  <2>1. /\ request'[q].at = "SRV"
        /\ \A c \in Requests : c # q => request'[c] = request[c]
        /\ \A c \in Requests : request'[c].server = request[c].server
    BY <1>0, <1>4, OneGetsOn DEF Advances, Stages
  <2>2. \A c \in Allocating : c \in Allocating' /\ request'[c].server = request[c].server
    BY <1>4, <2>1 DEF Advances, Allocating, InFlight
  <2> QED
    BY <1>1, <1>4, <2>2 DEF Advances
<1>5. ASSUME NEW q \in Requests, Returns(q) PROVE Accounted
  <2>1. \A c \in Allocating : c # q
    BY <1>5 DEF Returns, Allocating
  <2>2. \A c \in Allocating : request'[c] = request[c] /\ answer'[c] = answer[c]
    BY <1>0, <1>5, <2>1, OneGetsOn DEF Returns, Allocating, InFlight, Stages, Types
  <2>3. \A c \in Allocating : c \in Allocating'
    BY <2>2 DEF Allocating, InFlight
  <2> QED
    BY <1>1, <1>5, <2>2, <2>3 DEF Returns
<1>6. ASSUME NEW q \in Requests, NEW r \in {"live", "stub"}, q \in Allocating, Finishes(q, r)
      PROVE  Accounted
  <2>1. PICK st \in {"none", "active", "deleted"} :
          /\ server' = [server EXCEPT ![request[q].server] =
                          [state |-> st, port |-> request[q].port]]
          /\ request[q].kind # "network" => st = "active"
          /\ request[q].kind = "network" => st = server[request[q].server].state
    BY <1>0, <1>6, FinishedParts
  <2>2. request[q].server \in Servers /\ leases' = leases
    BY <1>0, <1>6, FinishedParts
  <2>3. server'[request[q].server].state # "none"
    BY <1>0, <1>6, <2>1, <2>2 DEF ServerKnown, Types
  <2>4. \A s \in Servers : server'[s] = server[s] \/ server'[s].state # "none"
    BY <1>0, <2>1, <2>2, <2>3 DEF Types
  <2>5. \A c \in Allocating : c # q => c \in Allocating' /\ request'[c].server = request[c].server
    <3>1. \E a \in Stages : request' = [request EXCEPT ![q].at = a]
      BY <1>0, <1>6, FinishedParts DEF Stages
    <3>2. \A c \in Requests : c # q => request'[c] = request[c] /\ answer'[c] = answer[c]
      <4>1. \A c \in Requests : c # q => request'[c] = request[c]
        BY <1>0, <3>1, OneGetsOn
      <4>2. answer' \in {answer, [answer EXCEPT ![q] = r]}
        BY <1>0, <1>6, FinishedParts
      <4> QED
        BY <1>0, <4>1, <4>2 DEF Types
    <3> QED
      BY <3>2 DEF Allocating, InFlight
  <2> QED
    BY <1>1, <2>2, <2>3, <2>4, <2>5
<1>7. ASSUME NEW s \in Servers, Recorded(s) PROVE Accounted
  <2>1. \A t \in Servers : server'[t] = server[t] \/ server'[t].state # "none"
    BY <1>0, <1>7 DEF Recorded, Types
  <2>2. \A c \in Allocating : c \in Allocating' /\ request'[c] = request[c]
    BY <1>7 DEF Recorded, Allocating, InFlight
  <2> QED
    BY <1>1, <1>7, <2>1, <2>2 DEF Recorded
<1>8. ASSUME NEW s \in Servers, Releases(s) PROVE Accounted
  <2>1. leases'[p] = leases[p]
    BY <1>8 DEF Releases, Released
  <2>2. \A c \in Allocating : c \in Allocating' /\ request'[c] = request[c]
    BY <1>8 DEF Releases, Allocating, InFlight
  <2> QED
    BY <1>1, <1>8, <2>1, <2>2 DEF Releases
<1>9. CASE Restart
  BY <1>9 DEF Restart
<1>10. CASE UNCHANGED <<leases, server, request, answer>>
  <2>1. \A c \in Allocating : c \in Allocating' /\ request'[c] = request[c]
    BY <1>10 DEF Allocating, InFlight
  <2> QED
    BY <1>1, <1>10, <2>1
<1> QED
  BY <1>0, <1>2, <1>3, <1>4, <1>5, <1>6, <1>7, <1>8, <1>9, <1>10, Moves

-----------------------------------------------------------------------------
(* The zone *)

\* Every step keeps what a request has posted, and what it claims to have posted.
LEMMA PostedStep == IInv /\ [Next]_vars => Posted' /\ LiveIsTrue'
<1> SUFFICES ASSUME IInv, [Next]_vars, NEW o \in Requests
             PROVE  /\ request'[o].at = "SRV" => DnsRecord(o, "A")' \in zone'
                    /\ request'[o].at = "live" \/ answer'[o] = "live" =>
                         DnsRecord(o, "A")' \in zone' /\ DnsRecord(o, "SRV")' \in zone'
  BY DEF Posted, LiveIsTrue
<1> DEFINE Kept == /\ request'[o].at = "SRV" => DnsRecord(o, "A")' \in zone'
                   /\ request'[o].at = "live" \/ answer'[o] = "live" =>
                        DnsRecord(o, "A")' \in zone' /\ DnsRecord(o, "SRV")' \in zone'
<1>0. Types /\ Stepwise /\ Posted /\ LiveIsTrue
  BY DEF IInv
<1>1. /\ request[o].at = "SRV" => DnsRecord(o, "A") \in zone
      /\ request[o].at = "live" \/ answer[o] = "live" =>
           DnsRecord(o, "A") \in zone /\ DnsRecord(o, "SRV") \in zone
  BY <1>0 DEF Posted, LiveIsTrue
<1>2. ASSUME request'[o].label = request[o].label, request'[o].port = request[o].port
      PROVE  \A t : DnsRecord(o, t)' = DnsRecord(o, t)
  BY <1>2 DEF DnsRecord
<1>3. ASSUME request'[o] = request[o], answer'[o] = answer[o], zone \subseteq zone' PROVE Kept
  BY <1>1, <1>2, <1>3
<1>4. ASSUME NEW q \in Requests, NEW s \in Servers, NEW p \in Ports, Begins(q, s, p)
      PROVE  Kept
  <2>1. CASE o = q
    <3>1. answer'[o] = "none" /\ request'[o].at \in {"A", "done"}
      BY <1>0, <1>4, <2>1 DEF Begins, Stepwise, Idle, Types
    <3> QED
      BY <3>1
  <2>2. CASE o # q
    BY <1>0, <1>3, <1>4, <2>2 DEF Begins, Types
  <2> QED
    BY <2>1, <2>2
<1>5. ASSUME NEW q \in Requests, Refuses(q) PROVE Kept
  <2>1. CASE o = q
    <3>1. answer'[o] = "refused" /\ request'[o].at = "done"
      BY <1>0, <1>5, <2>1 DEF Refuses, Idle, Types
    <3> QED
      BY <3>1
  <2>2. CASE o # q
    BY <1>0, <1>3, <1>5, <2>2 DEF Refuses, Types
  <2> QED
    BY <2>1, <2>2
<1>6. ASSUME NEW q \in Requests, Advances(q) PROVE Kept
  <2>1. /\ request'[q].at = "SRV" /\ \A c \in Requests : c # q => request'[c] = request[c]
        /\ request'[q].label = request[q].label /\ request'[q].port = request[q].port
    BY <1>0, <1>6, OneGetsOn DEF Advances, Stages
  <2>2. CASE o = q
    <3>1. DnsRecord(o, "A")' \in zone' /\ answer'[o] = "none"
      BY <1>0, <1>2, <1>6, <2>1, <2>2 DEF Advances, Stepwise
    <3> QED
      BY <2>1, <2>2, <3>1
  <2>3. CASE o # q
    BY <1>3, <1>6, <2>1, <2>3 DEF Advances
  <2> QED
    BY <2>2, <2>3
<1>7. ASSUME NEW q \in Requests, Returns(q) PROVE Kept
  <2>1. /\ request'[q].at = "done" /\ \A c \in Requests : c # q => request'[c] = request[c]
        /\ request'[q].label = request[q].label /\ request'[q].port = request[q].port
    BY <1>0, <1>7, OneGetsOn DEF Returns, Stages
  <2>2. PICK r \in {request[q].at, "refused"} : answer' = [answer EXCEPT ![q] = r]
    BY <1>7 DEF Returns
  <2>3. CASE o = q
    BY <1>0, <1>1, <1>2, <1>7, <2>1, <2>2, <2>3 DEF Returns, Types
  <2>4. CASE o # q
    BY <1>0, <1>3, <1>7, <2>1, <2>2, <2>4 DEF Returns, Types
  <2> QED
    BY <2>3, <2>4
<1>8. ASSUME NEW q \in Requests, NEW r \in {"live", "stub"}, q \in Allocating, Finishes(q, r)
      PROVE  Kept
  <2>1. PICK a \in {"done", r} : request' = [request EXCEPT ![q].at = a]
    BY <1>0, <1>8, FinishedParts
  <2>2. answer' \in {answer, [answer EXCEPT ![q] = r]}
    BY <1>0, <1>8, FinishedParts
  <2>3. /\ request'[q].at = a /\ \A c \in Requests : c # q => request'[c] = request[c]
        /\ request'[q].label = request[q].label /\ request'[q].port = request[q].port
    BY <1>0, <2>1, OneGetsOn DEF Stages
  <2>4. zone \subseteq zone'
    BY <1>8 DEF Finishes
  <2>5. CASE o = q
    <3>1. CASE r = "live"
      <4>1. request[q].at = "SRV" /\ DnsRecord(q, "SRV") \in zone'
        BY <1>8, <3>1 DEF Finishes
      <4>2. DnsRecord(o, "A") \in zone' /\ DnsRecord(o, "SRV") \in zone'
        BY <1>1, <2>4, <2>5, <4>1
      <4> QED
        BY <1>2, <2>3, <2>5, <4>2
    <3>2. CASE r = "stub"
      <4>1. answer'[o] # "live" /\ request'[o].at \in {"done", "stub"}
        BY <1>0, <1>8, <2>1, <2>2, <2>3, <2>5, <3>2 DEF Finishes, Types
      <4> QED
        BY <4>1
    <3> QED
      BY <3>1, <3>2
  <2>6. CASE o # q
    BY <1>0, <1>3, <2>2, <2>3, <2>4, <2>6 DEF Types
  <2> QED
    BY <2>5, <2>6
<1>9. CASE UNCHANGED <<zone, request, answer>>
  BY <1>3, <1>9
<1>10. CASE Restart
  BY <1>0, <1>1, <1>2, <1>10, AfterRestart DEF Restart
<1>11. ASSUME NEW s \in Servers, Recorded(s) \/ Releases(s) PROVE Kept
  BY <1>3, <1>11 DEF Recorded, Releases
<1> QED
  BY <1>0, <1>4, <1>5, <1>6, <1>7, <1>8, <1>9, <1>10, <1>11, Moves

-----------------------------------------------------------------------------
(* Theorems *)

\* The invariant holds in every reachable state.
THEOREM ProvisioningInvariant == Spec => []IInv
<1>1. IInv /\ [Next]_vars => IInv'
  BY TypesStep, StepwiseStep, HeldStep, KnownStep, PostedStep, ClaimStep, AccountedStep
     DEF IInv
<1> QED
  BY <1>1, InitIInv, PTL DEF Spec

\* Whatever runs while an allocation waits for DNS, the port it gave a server is
\* that server's until somebody releases it.
THEOREM ClaimsStayLeased == Spec => []ClaimIsLeased
BY ProvisioningInvariant, PTL DEF IInv

\* So no two servers were given one port.
THEOREM PortsStayExclusive == Spec => []PortsAreExclusive
<1>1. IInv => PortsAreExclusive
  BY DEF IInv, Types, ClaimIsLeased, PortsAreExclusive
<1> QED
  BY <1>1, ProvisioningInvariant, PTL

\* No error path of the allocator, the pipeline or the routes loses a lease.
THEOREM NoLeaseIsLost == Spec => []LeaseIsAccountedFor
BY ProvisioningInvariant, PTL DEF IInv

\* No request claims DNS records it has not posted.
THEOREM LiveTellsTrue == Spec => []LiveIsTrue
BY ProvisioningInvariant, PTL DEF IInv

=============================================================================
