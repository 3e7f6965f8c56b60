--------------------------- MODULE MCPrismaFlush ---------------------------
(* A small store: the seeded owner, two users with one address between them, *)
(* a pairing key whose serverId is the id of a node, and a ban.              *)
EXTENDS PrismaFlush

CONSTANTS owner, ann, bob, key, ban, address

MCRows == {owner, ann, bob, ban}       \* every row has its place in Postgres
MCPoisoned == {owner, ann, bob, key}   \* one has not
MCTableOf == [x \in Rows |-> IF x = key THEN 2 ELSE IF x = ban THEN 3 ELSE 1]
MCNeeds == [x \in Rows |-> IF x = key THEN Elsewhere ELSE None]
MCMail == [x \in Rows |-> IF x \in {ann, bob} THEN address ELSE None]
MCSeeds == {owner}
MCLedger == Rows \cap {ban}

\* Bound: a crash or an outage, not both; a crash before the last request.
OneFault ==
  /\ crashes + outages <= 1
  /\ crashes > 0 => \E q \in Requests : request[q] = "none"

=============================================================================
