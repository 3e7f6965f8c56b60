---------------------------- MODULE Provisioning ----------------------------
(***************************************************************************)
(* Ports and play subdomains of servers: PortPool, DnsProvider and         *)
(* SubdomainAllocator (packages/pipelines), the routes that use them and   *)
(* the setup pipeline.                                                     *)
(*                                                                         *)
(* A port is leased first; then, with Cloudflare configured, two DNS       *)
(* records are posted one after the other, and meanwhile any other request *)
(* may run.  The routes and the pipeline share one pool but have a         *)
(* DnsProvider each.  Leases and local DNS records live in memory only.    *)
(***************************************************************************)
EXTENDS Integers

CONSTANTS
  Servers,    \* server ids
  Labels,     \* subdomain labels
  MinPort, MaxPort,
  Requests,   \* the allocations that are asked for
  None,
  MaxRestart  \* bound: restarts of the API

ASSUME ProvisioningAssumption ==
  /\ MinPort \in Nat /\ MaxPort \in Nat /\ MinPort <= MaxPort
  /\ MaxRestart \in Nat
  /\ None \notin Servers \cup Labels \cup Nat

Ports == MinPort..MaxPort

VARIABLES
  live,     \* the Cloudflare token and zone are set
  leases,   \* PortPool.leases: port -> server or None
  server,   \* the server records: "none", "active", "deleted", and their port
  dns,      \* "routes" and "setup": the local records of each DnsProvider
  zone,     \* what Cloudflare holds
  request,  \* per request: kind, where it stands, server, label, port
  answer,   \* per request: what it returned: "none", "live", "stub", "refused"
  restarts,
  claim,    \* history: server -> the port its last allocation gave it, or None
  raced     \* history: servers released or allocated anew during an allocation

vars == <<live, leases, server, dns, zone, request, answer, restarts, claim, raced>>

Idle == [kind |-> None, at |-> "none", server |-> None, label |-> None, port |-> None]

TypeOK ==
  /\ live \in BOOLEAN
  /\ leases \in [Ports -> Servers \cup {None}]
  /\ server \in [Servers -> [state : {"none", "active", "deleted"}, port : Ports \cup {None}]]
  /\ \A r \in dns["routes"] \cup dns["setup"] \cup zone :
       r \in [request : Requests, type : {"A", "SRV"}, label : Labels, port : Ports]
  /\ answer \in [Requests -> {"none", "live", "stub", "refused"}]
  /\ claim \in [Servers -> Ports \cup {None}]
  /\ raced \subseteq Servers

Init ==
  /\ live \in BOOLEAN
  /\ leases = [p \in Ports |-> None]
  /\ server = [s \in Servers |-> [state |-> "none", port |-> None]]
  /\ dns = [provider \in {"routes", "setup"} |-> {}]
  /\ zone = {}
  /\ request = [q \in Requests |-> Idle]
  /\ answer = [q \in Requests |-> "none"]
  /\ restarts = 0
  /\ claim = [s \in Servers |-> None]
  /\ raced = {}

Active(s) == server[s].state = "active"
InFlight == {q \in Requests : request[q].at # "none" /\ answer[q] = "none"}

\* The requests that wait for DNS; others wait for the agent.
Allocating == {q \in InFlight : request[q].at \notin {"live", "stub"}}

-----------------------------------------------------------------------------
(* Port pool and DNS                                                        *)

FreePorts == {p \in Ports : leases[p] = None}

\* Mutation: the pool looks at the preferred port only to see it is in range.
Grants(preferred) == IF preferred # None THEN {preferred} ELSE FreePorts

\* PortPool.allocate: the preferred port or the first free one; {} if it throws.
Granted(preferred) ==
  IF preferred # None THEN {preferred} \cap FreePorts
  ELSE {p \in FreePorts : \A o \in FreePorts : p <= o}

DnsRecord(q, type) ==
  [request |-> q, type |-> type, label |-> request[q].label, port |-> request[q].port]

Provider(q) == IF request[q].kind = "network" THEN "routes" ELSE "setup"

\* SubdomainAllocator.allocate up to its first await: the lease and the two
\* local records.
Allocate(q, kind, s, label, p) ==
  /\ leases' = [leases EXCEPT ![p] = s]
  /\ request' = [request EXCEPT ![q] =
       [kind |-> kind, at |-> IF live THEN "A" ELSE "done", server |-> s,
        label |-> label, port |-> p]]
  /\ dns' = [dns EXCEPT ![IF kind = "network" THEN "routes" ELSE "setup"] = @ \cup
       {[request |-> q, type |-> t, label |-> label, port |-> p] : t \in {"A", "SRV"}}]

\* The allocation has the result r: the route writes it into the server it found
\* before, deleted or not; the pipeline pushes a new server, for which the agent is
\* asked before the answer.
Completed(q, r) ==
  LET s == request[q].server IN
  /\ IF request[q].kind = "network"
     THEN /\ request' = [request EXCEPT ![q].at = "done"]
          /\ answer' = [answer EXCEPT ![q] = r]
     ELSE request' = [request EXCEPT ![q].at = r] /\ UNCHANGED answer
  /\ server' = [server EXCEPT ![s] =
       [state |-> IF request[q].kind = "network" THEN @.state ELSE "active",
        port |-> request[q].port]]
  /\ claim' = [claim EXCEPT ![s] = request[q].port]

-----------------------------------------------------------------------------
(* Requests                                                                 *)

\* POST /provisioning/network.  A server may have a lease already; it keeps it.
Network(q, s, label, preferred) ==
  /\ request[q] = Idle
  /\ Active(s)
  /\ \/ \E p \in Granted(preferred) :
          /\ Allocate(q, "network", s, label, p)
          /\ raced' = IF \E o \in Allocating : request[o].server = s THEN raced \cup {s} ELSE raced
          /\ UNCHANGED answer
     \/ /\ Granted(preferred) = {}   \* 409
        /\ request' = [request EXCEPT ![q] = [Idle EXCEPT !.at = "done"]]
        /\ answer' = [answer EXCEPT ![q] = "refused"]
        /\ UNCHANGED <<leases, dns, raced>>
  /\ UNCHANGED <<live, server, zone, restarts, claim>>

New(s) == server[s].state = "none" /\ \A q \in Requests : request[q].server # s

\* POST /provisioning/setup.
Setup(q, s, label, preferred) ==
  /\ request[q] = Idle /\ New(s)
  /\ \E p \in Granted(preferred) : Allocate(q, "setup", s, label, p)
  /\ UNCHANGED <<live, server, zone, answer, restarts, claim, raced>>

\* POST /provisioning/deploy-full-stack: the same pipeline, without a preferred
\* port, whose errors are caught.
DeployFullStack(q, s, label) ==
  /\ request[q] = Idle /\ New(s)
  /\ \/ \E p \in Granted(None) : Allocate(q, "deploy", s, label, p) /\ UNCHANGED answer
     \/ /\ Granted(None) = {}
        /\ request' = [request EXCEPT ![q] = [Idle EXCEPT !.at = "done"]]
        /\ answer' = [answer EXCEPT ![q] = "refused"]
        /\ UNCHANGED <<leases, dns>>
  /\ UNCHANGED <<live, server, zone, restarts, claim, raced>>

AgentAsked(q) == request[q].at \in {"live", "stub"} /\ answer[q] = "none"

\* The agent was asked to write the properties, and wrote them or not.
SetupEnds(q) ==
  /\ AgentAsked(q) /\ request[q].kind = "setup"
  /\ request' = [request EXCEPT ![q].at = "done"]
  /\ answer' = [answer EXCEPT ![q] = request[q].at]
  /\ UNCHANGED <<live, leases, server, dns, zone, restarts, claim, raced>>

\* The agent was asked to start the server.  When that throws the deployment is
\* answered 500, and server and lease stay.
Deployed(q) ==
  /\ AgentAsked(q) /\ request[q].kind = "deploy"
  /\ request' = [request EXCEPT ![q].at = "done"]
  /\ \E r \in {request[q].at, "refused"} : answer' = [answer EXCEPT ![q] = r]
  /\ UNCHANGED <<live, leases, server, dns, zone, restarts, claim, raced>>

\* The first or the second record is posted.  Both were accepted: the local
\* records are replaced by ones with Cloudflare's ids, whether still there or not.
Post(q) ==
  /\ request[q].at \in {"A", "SRV"}
  /\ zone' = zone \cup {DnsRecord(q, request[q].at)}
  /\ IF request[q].at = "A"
     THEN /\ request' = [request EXCEPT ![q].at = "SRV"]
          /\ UNCHANGED <<dns, server, answer, claim>>
     ELSE /\ dns' = [dns EXCEPT ![Provider(q)] = @ \cup {DnsRecord(q, "A"), DnsRecord(q, "SRV")}]
          /\ Completed(q, "live")
  /\ UNCHANGED <<live, leases, restarts, raced>>

\* Mutation: a refused post ends the request.
PostThrows(q) ==
  /\ request[q].at \in {"A", "SRV"}
  /\ request' = [request EXCEPT ![q].at = "done"]
  /\ answer' = [answer EXCEPT ![q] = "refused"]
  /\ UNCHANGED <<live, leases, server, dns, zone, restarts, claim, raced>>

\* Mutation: only the last post counts.
PostIgnored(q) ==
  /\ request[q].at \in {"A", "SRV"}
  /\ IF request[q].at = "A"
     THEN /\ request' = [request EXCEPT ![q].at = "SRV"]
          /\ UNCHANGED <<server, answer, claim>>
     ELSE Completed(q, "live")
  /\ UNCHANGED <<live, leases, dns, zone, restarts, raced>>

\* A post is refused or does not get through: the allocation stands, as a stub.
\* A first record that was accepted stays in the zone.
PostFails(q) ==
  /\ request[q].at \in {"A", "SRV"}
  /\ Completed(q, "stub")
  /\ UNCHANGED <<live, leases, dns, zone, restarts, raced>>

\* Without Cloudflare the awaited call has nothing to wait for.
StubReturns(q) ==
  /\ request[q].at = "done" /\ answer[q] = "none"
  /\ Completed(q, "stub")
  /\ UNCHANGED <<live, leases, dns, zone, restarts, raced>>

\* PortPool.releaseByServer
Released(s) == [p \in Ports |-> IF leases[p] = s THEN None ELSE leases[p]]

\* DnsProvider.deleteSubdomain: the records of the label and below it.
deleteSubdomain(label) == {r \in dns["routes"] : r.label # label}

\* SubdomainAllocator.deallocate of the routes, whose provider alone is asked.
ReleaseAll(s, label) ==
  /\ leases' = Released(s)
  /\ dns' = [dns EXCEPT !["routes"] = deleteSubdomain(label)]

\* DELETE /provisioning/network/:serverId, for any id, with or without a label.
\* The server record keeps host and port.
Deallocate(s, label) ==
  /\ server[s].state # "none"
  /\ ReleaseAll(s, label)
  /\ claim' = [claim EXCEPT ![s] = None]
  /\ raced' = IF \E q \in Allocating : request[q].server = s THEN raced \cup {s} ELSE raced
  /\ UNCHANGED <<live, server, zone, request, answer, restarts>>

\* POST /servers, or a setup without a network: any port, no lease.
CreateServer(s, p) ==
  /\ New(s)
  /\ server' = [server EXCEPT ![s] = [state |-> "active", port |-> p]]
  /\ UNCHANGED <<live, leases, dns, zone, request, answer, restarts, claim, raced>>

\* DELETE /servers/:id: nothing is released.
DeleteServer(s) ==
  /\ Active(s)
  /\ server' = [server EXCEPT ![s].state = "deleted"]
  /\ UNCHANGED <<live, leases, dns, zone, request, answer, restarts, claim, raced>>

\* The API starts again with its server records.
Restart ==
  /\ restarts < MaxRestart
  /\ restarts' = restarts + 1
  /\ leases' = [p \in Ports |-> None]
  /\ dns' = [provider \in {"routes", "setup"} |-> {}]
  /\ answer' = [q \in Requests |-> IF q \in InFlight THEN "refused" ELSE answer[q]]
  /\ request' = [q \in Requests |-> IF q \in InFlight THEN [request[q] EXCEPT !.at = "done"] ELSE request[q]]
  /\ claim' = [s \in Servers |-> None]
  /\ raced' = {}
  /\ UNCHANGED <<live, server, zone>>

\* POST /setup has no catch: a pool that is exhausted, or a preferred port that
\* is taken, is a rejection nobody handles, and that ends the process.  So is an
\* agent that does not answer, when server and lease are made.
SetupThrows(preferred) ==
  /\ Granted(preferred) = {}
  /\ Restart

SetupRejects(q) == AgentAsked(q) /\ request[q].kind = "setup" /\ Restart

Next ==
  \/ \E q \in Requests :
       \/ \E s \in Servers, l \in Labels, p \in Ports \cup {None} :
            Network(q, s, l, p) \/ Setup(q, s, l, p)
       \/ \E s \in Servers, l \in Labels : DeployFullStack(q, s, l)
       \/ Post(q) \/ PostFails(q) \/ StubReturns(q)
       \/ SetupEnds(q) \/ SetupRejects(q) \/ Deployed(q)
  \/ \E s \in Servers :
       \/ \E l \in Labels \cup {None} : Deallocate(s, l)
       \/ \E p \in Ports : CreateServer(s, p)
       \/ DeleteServer(s)
  \/ Restart
  \/ \E p \in Ports \cup {None} : SetupThrows(p)

Spec == Init /\ [][Next]_vars

-----------------------------------------------------------------------------
(* Properties                                                               *)

\* The port an allocation gave a server is leased to that server until it is
\* released - unless the server was released, or given another port, while the
\* allocation waited for DNS.  (allocation.ts: lease before the awaits.)
ClaimIsLeased ==
  \A s \in Servers \ raced : claim[s] # None => leases[claim[s]] = s

\* A leased port belongs to a server there is a record of, or to an allocation
\* still on its way: no error path of the allocator or the pipeline loses one.
LeaseIsAccountedFor ==
  \A p \in Ports : leases[p] # None =>
    \/ server[leases[p]].state # "none"
    \/ \E q \in Allocating : request[q].server = leases[p]

\* Two servers whose ports were allocated do not share one.
PortsAreExclusive ==
  \A s, t \in Servers \ raced :
    s # t /\ claim[s] # None => claim[s] # claim[t]

\* A request that reports live DNS has both of its records in the zone.
\* (allocation.ts: "never claims live DNS succeeded".)
LiveIsTrue ==
  \A q \in Requests : answer[q] = "live" =>
    \A t \in {"A", "SRV"} : DnsRecord(q, t) \in zone

=============================================================================
