---------------------------- MODULE PrismaFlush ----------------------------
(***************************************************************************)
(* How the records of the API survive a restart (packages/db).             *)
(*                                                                         *)
(* The working copy is the memory of the process.  In the mode "prisma"    *)
(* every request that changed something starts a flush when its answer is  *)
(* sent: one upsert after the other over the live arrays, users first.     *)
(* A request that finds a flush under way waits for it.  In the mode       *)
(* "memory" a timer writes everything to one JSON file, in place.          *)
(*                                                                         *)
(* A row has a version that grows with every change; 0 is a row that does  *)
(* not exist.  The rows of the audit log are the requests themselves.      *)
(*                                                                         *)
(* One column is followed beside the version: the XUID of a row of the     *)
(* moderation ledger, the only one the code empties.                       *)
(***************************************************************************)
EXTENDS Integers, Sequences, FiniteSets, SequencesExt, FiniteSetsExt

CONSTANTS
  Rows,       \* all rows but those of the audit log
  Seeds,      \* the rows of seedDefaults
  Requests,   \* numbers of the mutating requests, at most one flush each
  LastTable,  \* tables are numbered in the order of a flush; the last is the audit log
  TableOf,    \* row -> table
  Needs,      \* row -> the row its foreign key names, None, or Elsewhere
  Elsewhere,  \* what a key names that no row of that table has
  Mail,       \* row -> the value of its unique column, or None
  Ledger,     \* the moderation actions: rows that name a player by XUID
  None,
  MaxVersion, \* bound: changes of one row
  MaxCrash,   \* bound: crashes of the API process
  MaxOutage   \* bound: upserts that fail for a reason of the database

ASSUME FlushAssumption ==
  /\ LastTable \in Nat \ {0} /\ MaxVersion \in Nat \ {0}
  /\ MaxCrash \in Nat /\ MaxOutage \in Nat
  /\ IsFiniteSet(Rows)
  /\ Requests \subseteq Nat /\ IsFiniteSet(Requests)
  /\ Seeds \subseteq Rows /\ None \notin Rows \cup Requests /\ Rows \cap Requests = {}
  /\ TableOf \in [Rows -> 1..(LastTable - 1)]
  /\ Needs \in [Rows -> Rows \cup {None, Elsewhere}]
  /\ Elsewhere \notin Rows
  /\ Ledger \subseteq Rows \ Seeds /\ \A x \in Ledger : TableOf[x] > 1
  /\ \E x \in Seeds : TableOf[x] = 1   \* the owner

Record == Rows \cup Requests
Table(x) == IF x \in Rows THEN TableOf[x] ELSE LastTable
Parent(x) == IF x \in Rows THEN Needs[x] ELSE None
Unique(x) == IF x \in Rows THEN Mail[x] ELSE None

VARIABLES
  mode,    \* DB_ADAPTER
  memory,  \* table -> its live array
  value,   \* record -> version in memory
  xuid,    \* the rows of the ledger that hold an XUID in memory
  stored,  \* record -> version in Postgres
  storedXuid, \* the rows that hold an XUID in Postgres
  file,    \* what the JSON store holds
  fileXuid,
  request, \* request -> "none", "answered", "lost", or what it awaits: see Awaiting
  row,     \* request -> the row it is about
  flush,   \* request -> its flush: "none", "waiting", "running", "done", "failed"
  on,      \* request -> the flush it waits for
  sent,    \* request -> the upsert in transit
  flushInFlight,
  crashes, outages,
  due,     \* history: what memory held when the last request was answered
  overlapped, \* history: two flushes have run at a time
  herd,       \* history: two flushes have waited for the same one
  refusedAt   \* history: the first table some flush did not get past

store == <<memory, value, xuid>>
postgres == <<stored, storedXuid>>
disk == <<file, fileXuid>>
progress == <<request, row>>
flushing == <<flush, on, sent, flushInFlight>>
history == <<due, overlapped, herd, refusedAt>>
vars == <<mode, store, postgres, disk, progress, flushing, crashes, outages, history>>

\* A request that awaits: the hash of a new user's password, the hash of a changed
\* one, or an alert's webhook.
Awaiting == {"checked", "hashing", "alerting"}

NoUpsert == [record |-> None, version |-> 0, xuid |-> FALSE, table |-> 0, pos |-> 0]
Upserts ==
  [record : Record, version : 1..MaxVersion, xuid : BOOLEAN,
   table : 1..LastTable, pos : Nat \ {0}]
Running == {q \in Requests : flush[q] = "running"}
Quiet == \A q \in Requests : flush[q] \notin {"waiting", "running"}

InMemory(x) == x \in ToSet(memory[Table(x)])

TypeOK ==
  /\ mode \in {"prisma", "memory"}
  /\ request \in [Requests -> {"none", "answered", "lost"} \cup Awaiting]
  /\ row \in [Requests -> Rows \cup {None}]
  /\ memory \in [1..LastTable -> Seq(Record)]
  /\ \A t \in 1..LastTable : memory[t] \in Seq({x \in Record : Table(x) = t})
  /\ \A m \in {value, stored, file, due} : m \in [Record -> 0..MaxVersion]
  /\ xuid \subseteq Record /\ storedXuid \subseteq Record /\ fileXuid \subseteq Record
  /\ flush \in [Requests -> {"none", "waiting", "running", "done", "failed"}]
  /\ on \in [Requests -> Requests \cup {None}]
  /\ sent \in [Requests -> Upserts \cup {NoUpsert}]
  /\ \A q \in Running : sent[q] \in Upserts
  /\ flushInFlight \in Requests \cup {None}
  /\ crashes \in 0..MaxCrash /\ outages \in 0..MaxOutage
  /\ overlapped \in BOOLEAN /\ herd \in BOOLEAN
  /\ refusedAt \in 1..(LastTable + 1)

-----------------------------------------------------------------------------
(* Boot                                                                     *)

Holding(have, t) == SetToSeq({x \in Record : Table(x) = t /\ have[x] > 0})

Seeded == [x \in Record |-> IF x \in Seeds THEN 1 ELSE 0]

\* initializeDatabase has finished: memory is what Postgres holds, or the
\* seeds, flushed, when there are no users in it.
Loaded(have, haveXuid) ==
  /\ memory' = [t \in 1..LastTable |-> Holding(have, t)]
  /\ value' = have
  /\ xuid' = haveXuid
  /\ due' = have

Init ==
  /\ mode \in {"prisma", "memory"}
  /\ memory = [t \in 1..LastTable |-> Holding(Seeded, t)]
  /\ value = Seeded /\ due = Seeded
  /\ stored = IF mode = "prisma" THEN Seeded ELSE [x \in Record |-> 0]
  /\ file = Seeded   \* start() saves before it listens
  /\ xuid = {} /\ storedXuid = {} /\ fileXuid = {}
  /\ request = [q \in Requests |-> "none"]
  /\ row = [q \in Requests |-> None]
  /\ flush = [q \in Requests |-> "none"]
  /\ on = [q \in Requests |-> None]
  /\ sent = [q \in Requests |-> NoUpsert]
  /\ flushInFlight = None
  /\ crashes = 0 /\ outages = 0
  /\ overlapped = FALSE /\ herd = FALSE
  /\ refusedAt = LastTable + 1

-----------------------------------------------------------------------------
(* Flushes                                                                  *)

\* The upsert of the next row at or behind position pos of table t, with the
\* values of this moment; NoUpsert at the end.  The arrays are iterated live:
\* what is pushed meanwhile is seen, what a removal shifts is passed over.
NextUpsert(mem, val, named, t, pos) ==
  LET At(u, p) == [record |-> mem[u][p], version |-> val[mem[u][p]],
                   xuid |-> mem[u][p] \in named, table |-> u, pos |-> p]
      later == {u \in (t + 1)..LastTable : mem[u] # <<>>}
  IN IF pos <= Len(mem[t]) THEN At(t, pos)
     ELSE IF later = {} THEN NoUpsert ELSE At(Min(later), 1)

\* Mutation: no gate, every flush starts at once.
NoGate == None

Gate == flushInFlight

\* The answer of q leaves with a status below 400: prismaWriteThroughMiddleware
\* starts flushMemoryToPrisma.
Answer(q) ==
  /\ request' = [request EXCEPT ![q] = "answered"]
  /\ due' = value'
  /\ IF mode = "memory" THEN UNCHANGED <<flushing, overlapped>>
     ELSE IF Gate # None
     THEN /\ flush' = [flush EXCEPT ![q] = "waiting"]
          /\ on' = [on EXCEPT ![q] = flushInFlight]
          /\ UNCHANGED <<sent, flushInFlight, overlapped>>
     ELSE /\ flush' = [flush EXCEPT ![q] = "running"]
          /\ sent' = [sent EXCEPT ![q] = NextUpsert(memory', value', xuid', 1, 1)]
          /\ flushInFlight' = q
          /\ overlapped' = (overlapped \/ Running # {})
          /\ UNCHANGED on
  /\ UNCHANGED <<mode, postgres, disk, crashes, outages, herd, refusedAt>>

\* Mutation: nobody goes on when a flush ends.
NobodyOf(q) == {}

WaitersOf(q) == {w \in Requests : flush[w] = "waiting" /\ on[w] = q}

\* The flush of q has written its last row.  Its finally clears the mark,
\* whoever set it, and everyone that waited goes on: each starts its flush and
\* sets the mark, without looking again.
FinishFlush(q) ==
  LET W == WaitersOf(q) IN
  /\ flush' = [w \in Requests |-> IF w = q THEN "done"
                                  ELSE IF w \in W THEN "running" ELSE flush[w]]
  /\ sent' = [w \in Requests |-> IF w = q THEN NoUpsert
                                 ELSE IF w \in W THEN NextUpsert(memory, value, xuid, 1, 1)
                                 ELSE sent[w]]
  /\ IF W = {} THEN flushInFlight' = None ELSE flushInFlight' \in W
  /\ overlapped' = (overlapped \/ Cardinality((Running \ {q}) \cup W) > 1)
  /\ herd' = (herd \/ Cardinality(W) > 1)
  /\ UNCHANGED refusedAt

\* An upsert was refused: the flush ends, and with it, unwritten, the flushes
\* that waited for it, since their await throws.
FailFlush(q) ==
  LET W == WaitersOf(q) IN
  /\ flush' = [w \in Requests |-> IF w \in W \cup {q} THEN "failed" ELSE flush[w]]
  /\ sent' = [sent EXCEPT ![q] = NoUpsert]
  /\ flushInFlight' = None
  /\ refusedAt' = IF W # {} THEN 1
                  ELSE IF sent[q].table < refusedAt THEN sent[q].table ELSE refusedAt
  /\ UNCHANGED <<overlapped, herd>>

\* A foreign key must name a stored row and a unique value must be free.
Accepts(x) ==
  /\ Parent(x) # None => Parent(x) \in Rows /\ stored[Parent(x)] > 0
  /\ Unique(x) # None =>
       \A y \in Rows \ {x} : stored[y] > 0 => Unique(y) # Unique(x)

\* Mutation: rows that are stored already are left alone.
StoresOnce(q) ==
  /\ stored' = [stored EXCEPT ![sent[q].record] = IF @ = 0 THEN sent[q].version ELSE @]
  /\ UNCHANGED storedXuid

\* The row is created or updated.  A value that is undefined is left out of an
\* update: the column keeps what it has.
Stores(q) ==
  /\ stored' = [stored EXCEPT ![sent[q].record] = sent[q].version]
  /\ storedXuid' = IF sent[q].xuid THEN storedXuid \cup {sent[q].record} ELSE storedXuid

\* Postgres carries out the upsert in transit, and the loop sends the next one.
Upsert(q) ==
  LET u == sent[q] IN
  /\ flush[q] = "running"
  /\ Accepts(u.record)
  /\ Stores(q)
  /\ LET n == NextUpsert(memory, value, xuid, u.table, u.pos + 1) IN
     IF n = NoUpsert THEN FinishFlush(q)
     ELSE /\ sent' = [sent EXCEPT ![q] = n]
          /\ UNCHANGED <<flush, flushInFlight, overlapped, herd, refusedAt>>
  /\ UNCHANGED <<mode, store, disk, progress, on, crashes, outages, due>>

Refuse(q) ==
  /\ flush[q] = "running"
  /\ \/ ~Accepts(sent[q].record) /\ UNCHANGED outages
     \/ outages < MaxOutage /\ outages' = outages + 1
  /\ FailFlush(q)
  /\ UNCHANGED <<mode, store, postgres, disk, progress, on, crashes, due>>

-----------------------------------------------------------------------------
(* Requests                                                                 *)

\* Requests are numbered in the order of their arrival.
Arrives(q) ==
  /\ request[q] = "none"
  /\ \A p \in Requests : p < q => request[p] # "none"

Pushed(q, x) ==  \* row x and the audit entry of q are pushed
  /\ memory' = [memory EXCEPT ![TableOf[x]] = Append(@, x), ![LastTable] = Append(@, q)]
  /\ value' = [value EXCEPT ![x] = 1, ![q] = 1]
  /\ xuid' = IF x \in Ledger THEN xuid \cup {x} ELSE xuid

\* Ids are never used again.
Fresh(x) == x \notin Seeds /\ \A q \in Requests : row[q] # x

\* POST /users: the address is free; the password hash is awaited.
CheckMail(q, u) ==
  /\ Arrives(q)
  /\ TableOf[u] = 1 /\ Fresh(u)
  /\ \A v \in Rows : InMemory(v) => Mail[v] # Mail[u]
  /\ request' = [request EXCEPT ![q] = "checked"]
  /\ row' = [row EXCEPT ![q] = u]
  /\ UNCHANGED <<mode, store, postgres, disk, flushing, crashes, outages, history>>

CreateUser(q) ==
  /\ request[q] = "checked"
  /\ Pushed(q, row[q])
  /\ Answer(q)
  /\ UNCHANGED row

\* A route without an await: a new server, key, pipeline run, ...
Insert(q, x) ==
  /\ Arrives(q)
  /\ TableOf[x] > 1 /\ Fresh(x)
  /\ Pushed(q, x)
  /\ Answer(q)
  /\ row' = [row EXCEPT ![q] = x]

\* POST /moderation of a ban or a kick, the setup pipeline: the row is pushed at
\* once, and the answer waits for the alert.
CreateAction(q, x) ==
  /\ Arrives(q)
  /\ TableOf[x] > 1 /\ Fresh(x)
  /\ Pushed(q, x)
  /\ request' = [request EXCEPT ![q] = "alerting"]
  /\ row' = [row EXCEPT ![q] = x]
  /\ UNCHANGED <<mode, postgres, disk, flushing, crashes, outages, history>>

AlertSent(q) ==
  /\ request[q] = "alerting"
  /\ UNCHANGED <<store, row>>
  /\ Answer(q)

CanChange(x) == InMemory(x) /\ value[x] < MaxVersion

Change(q, x) ==
  /\ Arrives(q)
  /\ CanChange(x)
  /\ value' = [value EXCEPT ![x] = @ + 1, ![q] = 1]
  /\ memory' = [memory EXCEPT ![LastTable] = Append(@, q)]
  /\ UNCHANGED xuid
  /\ Answer(q)
  /\ row' = [row EXCEPT ![q] = x]

\* PATCH /users/:id without a password.
UpdateUser(q, u) == TableOf[u] = 1 /\ Change(q, u)

\* POST /moderation/:id/deactivate, and other routes that change a row.
DeactivateAction(q, x) == TableOf[x] > 1 /\ Change(q, x)

\* POST /moderation/gdpr/anonymize: the rows about one player lose their XUID.
Anonymise(q, player) ==
  /\ Arrives(q)
  /\ player # {} /\ \A x \in player : CanChange(x)
  /\ value' = [x \in Record |-> IF x \in player THEN value[x] + 1
                               ELSE IF x = q THEN 1 ELSE value[x]]
  /\ memory' = [memory EXCEPT ![LastTable] = Append(@, q)]
  /\ xuid' = xuid \ player
  /\ Answer(q)
  /\ UNCHANGED row

\* PATCH /users/:id with a password: the other fields change before its hash is
\* awaited, the hash afterwards, in a record that may be gone.
ChangePassword(q, u) ==
  /\ Arrives(q)
  /\ TableOf[u] = 1 /\ CanChange(u)
  /\ value' = [value EXCEPT ![u] = @ + 1]
  /\ request' = [request EXCEPT ![q] = "hashing"]
  /\ row' = [row EXCEPT ![q] = u]
  /\ UNCHANGED <<mode, memory, xuid, postgres, disk, flushing, crashes, outages, history>>

PasswordChanged(q) ==
  /\ request[q] = "hashing"
  /\ InMemory(row[q]) => CanChange(row[q])
  /\ value' = [value EXCEPT ![row[q]] = IF InMemory(row[q]) THEN @ + 1 ELSE @, ![q] = 1]
  /\ memory' = [memory EXCEPT ![LastTable] = Append(@, q)]
  /\ UNCHANGED xuid
  /\ Answer(q)
  /\ UNCHANGED row

\* DELETE /users/:id splices the array; nothing deletes the stored row.
DeleteUser(q, u) ==
  /\ Arrives(q)
  /\ TableOf[u] = 1
  /\ Len(memory[1]) > 1   \* the caller's own account stays
  /\ \E index \in 1..Len(memory[1]) :
       /\ memory[1][index] = u
       /\ memory' = [memory EXCEPT ![1] = RemoveAt(@, index), ![LastTable] = Append(@, q)]
  /\ value' = [value EXCEPT ![u] = 0, ![q] = 1]
  /\ UNCHANGED xuid
  /\ Answer(q)
  /\ row' = [row EXCEPT ![q] = u]

\* Heartbeats, crash reports, sweeps, answers after the response: no flush.
\* Users change only in requests.  Bound: the last version is left to requests.
ChangeUnflushed(x) ==
  /\ TableOf[x] > 1
  /\ CanChange(x) /\ value[x] + 1 < MaxVersion
  /\ value' = [value EXCEPT ![x] = @ + 1]
  /\ UNCHANGED <<mode, memory, xuid, postgres, disk, progress, flushing, crashes, outages, history>>

-----------------------------------------------------------------------------
(* The JSON file, crashes                                                   *)

\* The timer of start(), every 10 s.  In the mode "prisma" nothing reads the file.
Save ==
  /\ mode = "memory"
  /\ file' = value /\ fileXuid' = xuid
  /\ disk' # disk
  /\ UNCHANGED <<mode, store, postgres, progress, flushing, crashes, outages, history>>

\* What the next process finds.  A file that does not parse is no file.
Found(torn) == IF mode = "prisma" THEN stored ELSE IF torn THEN Seeded ELSE file
FoundXuid(torn) == IF mode = "prisma" THEN storedXuid ELSE IF torn THEN {} ELSE fileXuid

\* The process ends, torn during a save, and is started again.
Crash(torn) ==
  /\ crashes < MaxCrash
  /\ torn => mode = "memory"
  /\ crashes' = crashes + 1
  /\ LET found == Found(torn)
         have  == IF \E x \in Record : Table(x) = 1 /\ found[x] > 0 THEN found ELSE Seeded
         named == {x \in FoundXuid(torn) : have[x] > 0}
     IN /\ Loaded(have, named)
        /\ IF mode = "memory"
           THEN file' = have /\ fileXuid' = named /\ UNCHANGED postgres
           ELSE stored' = have /\ storedXuid' = named /\ UNCHANGED disk
  /\ request' = [q \in Requests |-> IF request[q] \in Awaiting THEN "lost" ELSE request[q]]
  /\ flush' = [q \in Requests |-> IF flush[q] \in {"waiting", "running"} THEN "failed" ELSE flush[q]]
  /\ sent' = [q \in Requests |-> NoUpsert]
  /\ flushInFlight' = None
  /\ overlapped' = FALSE /\ herd' = FALSE
  /\ refusedAt' = LastTable + 1
  /\ UNCHANGED <<mode, row, on, outages>>

-----------------------------------------------------------------------------
Next ==
  \/ \E q \in Requests :
       \/ Upsert(q) \/ Refuse(q)
       \/ CreateUser(q) \/ PasswordChanged(q) \/ AlertSent(q)
       \/ \E x \in Rows : \/ CheckMail(q, x) \/ Insert(q, x) \/ CreateAction(q, x)
                          \/ UpdateUser(q, x) \/ DeactivateAction(q, x)
                          \/ ChangePassword(q, x) \/ DeleteUser(q, x)
       \/ \E player \in SUBSET Ledger : Anonymise(q, player)
  \/ \E x \in Rows : ChangeUnflushed(x)
  \/ Save
  \/ \E torn \in BOOLEAN : Crash(torn)

\* Postgres answers every statement; the event loop continues the flush.
Fairness == \A q \in Requests : WF_vars(Upsert(q) \/ Refuse(q))

Spec == Init /\ [][Next]_vars /\ Fairness

-----------------------------------------------------------------------------
(* Properties                                                               *)

\* When all flushes have ended, Postgres holds what memory held when the last
\* request was answered - of the tables no flush was stopped at, unless two
\* flushes have run side by side; the XUIDs memory has are there, those it has
\* no more may be.  (persist.ts: the gate, the live iteration under removals,
\* the failure of a flush others wait for, undefined in an update.)
SettledIsDurable ==
  mode = "prisma" /\ Quiet /\ ~overlapped =>
    \A x \in Record : InMemory(x) /\ Table(x) < refusedAt =>
      /\ stored[x] >= due[x]
      /\ due[x] > 0 /\ x \in xuid => x \in storedXuid

\* The gate lets two flushes run side by side only after two requests had
\* waited for the same flush.  (persist.ts: flushInFlight.)
AloneUnlessHerd == Cardinality(Running) > 1 => herd

\* Until two requests have waited for the same flush, no row of Postgres goes
\* back to an older version.  (persist.ts: values are read when an upsert is
\* sent, not when it is stored; flushInFlight.)
NoStaleOverwrite ==
  [][~herd' => \A x \in Record : stored'[x] >= stored[x]]_vars

\* persist.middleware.ts: the snapshot is written - so when every flush has
\* reached its end, Postgres has no XUID of a row that has none in memory.
AnonymisedIsWritten ==
  mode = "prisma" /\ Quiet /\ ~overlapped /\ refusedAt = LastTable + 1 =>
    \A x \in Ledger : InMemory(x) /\ x \notin xuid => x \notin storedXuid

\* jsonStore.ts: state persists across restarts - what the last save held is
\* there again.
RestartKeepsSaved ==
  [][mode = "memory" /\ crashes' > crashes =>
       \A x \in Record : file[x] > 0 => InMemory(x)' /\ value'[x] >= file[x]]_vars

\* Every flush comes to an end, and so does every wait for one.  A request
\* starts one flush at most, so to be out of it again and again is to be done.
FlushesEnd == \A q \in Requests : []<>(flush[q] \notin {"waiting", "running"})

\* persist.middleware.ts: after a successful mutating request the snapshot is
\* written - whatever rows it holds, as long as Postgres is up, the process
\* lives and flushes run one by one.
AnsweredIsWritten ==
  mode = "prisma" /\ Quiet /\ ~overlapped /\ outages = 0 /\ crashes = 0 =>
    \A q \in Requests : request[q] = "answered" => stored[q] > 0

=============================================================================
