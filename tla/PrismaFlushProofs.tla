-------------------------- MODULE PrismaFlushProofs --------------------------
(***************************************************************************)
(* What the flushes store, for any tables, rows, requests, crashes and     *)
(* outages.                                                                *)
(*                                                                         *)
(* SettledIsDurable says nothing of a flush under way.  It becomes         *)
(* inductive with Progress: a flush that nobody waits for has stored, as   *)
(* it was answered last, every slot it has passed, and has the present     *)
(* record of its own slot in its hands.  A removal shifts slots below the  *)
(* flush, but every removal ends with an answer, and the request that is   *)
(* answered waits for the flush and starts over; that is why Progress      *)
(* speaks only of flushes without waiters, and why edits that send no      *)
(* answer (Silent) must only grow the tables (Grows).                      *)
(*                                                                         *)
(* A step on memory is either Silent or Answers: each action is shown to   *)
(* be one of the two, and the two are shown to keep the invariant.         *)
(***************************************************************************)
EXTENDS PrismaFlush, SequenceTheorems, FiniteSetTheorems, FunctionTheorems,
        WellFoundedInduction, TLAPS
\* The positions of table t that hold a record.
Slots(t) == 1..Len(memory[t])

\* The gate: the flush in progress is the one the mark names, and the others
\* wait for it.
Alone ==
  /\ \A q \in Requests : flush[q] = "running" <=> flushInFlight = q
  /\ \A w \in Requests : flush[w] = "waiting" => flushInFlight # None /\ on[w] = flushInFlight

GateHolds == (overlapped => herd) /\ (~overlapped => Alone)

NoWaiters == \A w \in Requests : flush[w] # "waiting"

\* Slot i of table t comes before position pos of table s, or before that of the
\* upsert u.
Before(t, i, s, pos) == t < s \/ (t = s /\ i < pos)
Passed(u, t, i) == Before(t, i, u.table, u.pos)

\* The record of slot i of table t is stored as it was when a request was answered last.
Durable(t, i) == stored[memory[t][i]] >= due[memory[t][i]]

\* A flush that nobody waits for is to store what was answered: it has stored what it
\* has passed, and has the present row in its hands.
Progress ==
  ~overlapped /\ NoWaiters =>
    \A q \in Running :
      /\ sent[q].pos \in Slots(sent[q].table)
      /\ sent[q].record = memory[sent[q].table][sent[q].pos]
      /\ sent[q].version >= due[sent[q].record]
      /\ \A t \in 1..LastTable : \A i \in Slots(t) : Passed(sent[q], t, i) => Durable(t, i)

\* When nothing is left to do, the tables no flush was stopped at are stored.
Settled ==
  mode = "prisma" /\ ~overlapped /\ Quiet =>
    \A t \in 1..LastTable : \A i \in Slots(t) : t < refusedAt => Durable(t, i)

\* A record that was never in memory: a new id or one a request has only checked, a
\* request that has logged nothing yet.
Untouched(x) ==
  IF x \in Rows
  THEN x \notin Seeds /\ \A q \in Requests : row[q] = x => request[q] \in {"none", "checked"}
  ELSE request[x] \in {"none", "checked", "hashing"}

UntouchedIsNowhere ==
  \A x \in Record : Untouched(x) =>
    /\ value[x] = 0 /\ stored[x] = 0 /\ file[x] = 0 /\ due[x] = 0
    /\ \A q \in Running : sent[q].record # x

\* What memory holds has a version.
HeldHasVersion ==
  \A t \in 1..LastTable : \A i \in Slots(t) : value[memory[t][i]] > 0

\* Memory is never older than Postgres: not than what is stored nor than what is sent.
MemoryIsNewest ==
  mode = "prisma" => \A x \in Record : InMemory(x) =>
    /\ stored[x] <= value[x]
    /\ \A q \in Running : sent[q].record = x => sent[q].version <= value[x]

\* A flush that is alone sends what is no older than what is stored.
SentIsNewer == ~overlapped => \A q \in Running : stored[sent[q].record] <= sent[q].version

DueIsPast == \A x \in Record : due[x] <= value[x]

\* No user is twice in the array, and a user to be created is that of one request.
UsersAreDistinct == \A i, j \in Slots(1) : memory[1][i] = memory[1][j] => i = j

CheckedIsNew ==
  \A q \in Requests : request[q] = "checked" =>
    /\ row[q] \in Rows \ Seeds /\ Table(row[q]) = 1
    /\ \A p \in Requests : row[p] = row[q] => p = q

\* There is always a user: in memory, and in what a restart reads.
HasUser(have) == \E x \in Record : Table(x) = 1 /\ have[x] > 0
UserRemains ==
  /\ memory[1] # <<>>
  /\ mode = "prisma" => HasUser(stored)
  /\ mode = "memory" => HasUser(file)

\* A request has a flush only when it is answered; the audit log is not empty
\* before the first of them, and the mode "memory" has none.
FlushIsForAnswer ==
  \A q \in Requests :
    /\ flush[q] # "none" => request[q] = "answered" /\ mode = "prisma"
    /\ request[q] = "alerting" \/ flush[q] \in {"waiting", "running"} => memory[LastTable] # <<>>

\* An XUID that memory still has was there whenever its row was read: it is in what
\* is sent, and in what is stored.
XuidsFollow ==
  mode = "prisma" => \A x \in xuid :
    /\ stored[x] > 0 => x \in storedXuid
    /\ \A q \in Running : sent[q].record = x => sent[q].xuid

AwaitingHasRow ==
  \A q \in Requests : request[q] \in {"alerting", "hashing"} => row[q] \in Rows

\* After a start: nothing is under way, and memory is what was found.
Rested ==
  /\ TypeOK /\ UntouchedIsNowhere
  /\ memory = [t \in 1..LastTable |-> Holding(value, t)] /\ due = value /\ HasUser(value)
  /\ mode = "prisma" => stored = value /\ xuid = storedXuid
  /\ mode = "memory" => file = value
  /\ ~overlapped /\ flushInFlight = None
  /\ \A q \in Requests :
       /\ request[q] \notin Awaiting /\ flush[q] \notin {"waiting", "running"}
       /\ flush[q] # "none" => request[q] = "answered" /\ mode = "prisma"

IInv ==
  /\ TypeOK /\ GateHolds /\ Progress /\ Settled /\ UntouchedIsNowhere
  /\ HeldHasVersion /\ MemoryIsNewest /\ SentIsNewer /\ DueIsPast
  /\ UsersAreDistinct /\ CheckedIsNew /\ UserRemains
  /\ FlushIsForAnswer /\ AwaitingHasRow /\ XuidsFollow

\* A table gets a record that is new, or stays as it is.
Extends ==
  /\ memory' = [t \in 1..LastTable |-> memory'[t]]
  /\ \A t \in 1..LastTable :
       \/ memory'[t] = memory[t]
       \/ \E y \in Record : /\ Table(y) = t /\ Untouched(y) /\ value'[y] > 0
                            /\ memory'[t] = Append(memory[t], y)

Grows ==
  \A t \in 1..LastTable :
    /\ Slots(t) \subseteq Slots(t)'
    /\ \A i \in Slots(t) : memory'[t][i] = memory[t][i]
    /\ \A i \in Slots(t)' : i \notin Slots(t) => Untouched(memory'[t][i])

\* What a step of a request, of the agents or of the timer does with memory.
EditTypes ==
  /\ memory' \in [1..LastTable -> Seq(Record)]
  /\ \A t \in 1..LastTable : memory'[t] \in Seq({x \in Record : Table(x) = t})
  /\ value' \in [Record -> 0..MaxVersion]
  /\ request' \in [Requests -> {"none", "answered", "lost"} \cup Awaiting]
  /\ row' \in [Requests -> Rows \cup {None}]

\* Only a new row comes with an XUID.
NamesFew == xuid' \subseteq Record /\ \A x \in xuid' : x \in xuid \/ Untouched(x)

Edit ==
  /\ EditTypes /\ NamesFew /\ UNCHANGED <<mode, stored, storedXuid, crashes, outages>>
  /\ file' = file \/ (file' = value /\ value' = value)
  /\ fileXuid' = fileXuid \/ fileXuid' = xuid
  /\ HeldHasVersion' /\ UsersAreDistinct' /\ CheckedIsNew' /\ AwaitingHasRow'
  /\ memory'[1] # <<>>
  /\ \A x \in Record : InMemory(x)' => Untouched(x) \/ (InMemory(x) /\ value'[x] >= value[x])
  /\ \A x \in Record : Untouched(x)' => Untouched(x) /\ value'[x] = value[x]

\* Such a step, and no answer is sent.
Silent ==
  /\ Edit /\ Grows /\ UNCHANGED <<flushing, history>>
  /\ \A x \in Record : value'[x] >= value[x]
  /\ \A q \in Requests :
       /\ request[q] = "answered" => request'[q] = "answered"
       /\ request'[q] = "alerting" => request[q] = "alerting" \/ memory'[LastTable] # <<>>

\* Such a step, and the answer of q is sent.
Answers(q) ==
  /\ Edit /\ Answer(q) /\ file' = file
  /\ request[q] \in {"none"} \cup Awaiting /\ memory'[LastTable] # <<>>
-----------------------------------------------------------------------------
(* Constants and sequences *)

\* Rows are not requests, and the two are finitely many.
LEMMA Constants ==
  /\ LastTable \in Nat \ {0} /\ MaxVersion \in Nat \ {0}
  /\ MaxCrash \in Nat /\ MaxOutage \in Nat
  /\ Rows \cap Requests = {} /\ None \notin Record
  /\ IsFiniteSet(Record) /\ IsFiniteSet(Requests)
  /\ \A x \in Record : Table(x) \in 1..LastTable
  /\ \A q \in Requests : q \in Record /\ Table(q) = LastTable
  /\ \A x \in Rows : x \in Record /\ Table(x) = TableOf[x] /\ Table(x) < LastTable
<1>1. IsFiniteSet(Record)
  BY FlushAssumption, FS_Union DEF Record
<1>2. \A x \in Rows : TableOf[x] \in 1..(LastTable - 1)
  BY FlushAssumption
<1>3. \A x \in Rows : TableOf[x] \in 1..LastTable /\ TableOf[x] < LastTable
  BY <1>2, FlushAssumption
<1> QED
  BY <1>1, <1>3, FlushAssumption DEF Record, Table

\* What a table holds.
LEMMA SlotTypes ==
  ASSUME NEW mem \in [1..LastTable -> Seq(Record)], NEW t \in 1..LastTable
  PROVE  /\ mem[t] \in Seq(Record) /\ Len(mem[t]) \in Nat
         /\ \A i \in 1..Len(mem[t]) : mem[t][i] \in Record
         /\ mem[t] # <<>> <=> 1 \in 1..Len(mem[t])
<1>1. mem[t] \in Seq(Record)
  OBVIOUS
<1> QED
  BY <1>1, LenProperties, ElementOfSeq, EmptySeq

\* A set of tables has a first one.
LEMMA FirstTable ==
  ASSUME NEW T, T \subseteq 1..LastTable, T # {}
  PROVE  Min(T) \in T /\ \A t \in T : Min(T) <= t
<1> DEFINE Below(t) == {x \in T : x < t}
           F == {Below(t) : t \in T}
<1>0. LastTable \in Int /\ \A x \in T : x \in Int
  BY Constants
<1>1. IsFiniteSet(T)
  <2>1. IsFiniteSet(1..LastTable)
    BY <1>0, FS_Interval
  <2> QED
    BY <2>1, FS_Subset
<1>2. F \subseteq FiniteSubsetsOf(T) /\ F # {}
  <2>1. ASSUME NEW t \in T PROVE Below(t) \in FiniteSubsetsOf(T)
    <3>1. Below(t) \subseteq T
      OBVIOUS
    <3> QED
      BY <1>1, <3>1, FS_Subset DEF FiniteSubsetsOf
  <2> QED
    BY <2>1
<1>3. IsWellFoundedOn(StrictSubsetOrdering(T), FiniteSubsetsOf(T))
  BY FS_StrictSubsetOrderingWellFounded
<1>4. PICK B \in F : \A C \in F : ~(<<C, B>> \in StrictSubsetOrdering(T))
  <2> HIDE DEF F
  <2> QED
    BY <1>2, <1>3, WFMin
<1>5. PICK m \in T : B = Below(m)
  OBVIOUS
<1>6. \A t \in T : m <= t
  <2> SUFFICES ASSUME NEW t \in T, t < m PROVE FALSE
    BY <1>0
  <2>1. t \in Below(m) /\ t \notin Below(t)
    BY <1>0
  <2>2. \A x \in T : x < t => x < m
    BY <1>0
  <2>3. Below(t) \subseteq Below(m)
    BY <2>2
  <2>4. <<Below(t), Below(m)>> \in StrictSubsetOrdering(T)
    BY <2>1, <2>3 DEF StrictSubsetOrdering
  <2> QED
    BY <1>4, <1>5, <2>4
<1> QED
  BY <1>0, <1>6 DEF Min

\* The upsert n is that of a slot, with the version its record has at this moment.
Reads(mem, val, named, n) ==
  /\ n \in Upserts /\ n.pos \in 1..Len(mem[n.table])
  /\ n.record = mem[n.table][n.pos] /\ n.version = val[n.record]
  /\ n.xuid = (n.record \in named)

\* What NextUpsert returns: the upsert of the first slot that is not before position
\* pos of table t, or NoUpsert if there is none.
LEMMA NextUpsertIsNext ==
  ASSUME NEW mem \in [1..LastTable -> Seq(Record)], NEW val \in [Record -> 0..MaxVersion], NEW named,
         \A s \in 1..LastTable : \A i \in 1..Len(mem[s]) : val[mem[s][i]] > 0,
         NEW t, t \in 1..LastTable, NEW pos, pos \in Nat \ {0},
         NEW n, n = NextUpsert(mem, val, named, t, pos)
  PROVE  \/ /\ n = NoUpsert
            /\ \A s \in 1..LastTable : \A i \in 1..Len(mem[s]) : Before(s, i, t, pos)
         \/ /\ n # NoUpsert /\ Reads(mem, val, named, n)
            /\ \A s \in 1..LastTable : \A i \in 1..Len(mem[s]) :
                 Passed(n, s, i) => Before(s, i, t, pos)
<1> DEFINE later == {u \in (t + 1)..LastTable : mem[u] # <<>>}
           At(u, p) == [record |-> mem[u][p], version |-> val[mem[u][p]],
                      xuid |-> mem[u][p] \in named, table |-> u, pos |-> p]
<1>1. /\ LastTable \in Nat /\ t \in Nat /\ pos \in Nat /\ MaxVersion \in Nat
      /\ \A s \in 1..LastTable : s \in Nat /\ Len(mem[s]) \in Nat
  BY Constants, SlotTypes
<1>2. n = IF pos <= Len(mem[t]) THEN At(t, pos)
          ELSE IF later = {} THEN NoUpsert ELSE At(Min(later), 1)
  BY DEF NextUpsert
<1>3. ASSUME NEW u \in 1..LastTable, NEW p \in 1..Len(mem[u]), n = At(u, p)
      PROVE  n # NoUpsert /\ Reads(mem, val, named, n)
             /\ n.table = u /\ n.pos = p
  <2>0. mem[u][p] \in Record
    BY SlotTypes
  <2>1. /\ mem[u][p] \in Record /\ mem[u][p] # None
        /\ val[mem[u][p]] \in 1..MaxVersion /\ p \in Nat \ {0}
    <3>1. val[mem[u][p]] \in 0..MaxVersion /\ val[mem[u][p]] > 0
      BY <2>0
    <3>2. None \notin Record
      BY Constants
    <3> QED
      BY <1>1, <2>0, <3>1, <3>2
  <2> QED
    BY <1>3, <2>1 DEF NoUpsert, Upserts, Reads
<1>4. CASE pos <= Len(mem[t])
  <2>1. n = At(t, pos) /\ pos \in 1..Len(mem[t])
    BY <1>1, <1>2, <1>4
  <2>2. n # NoUpsert /\ Reads(mem, val, named, n)
        /\ n.table = t /\ n.pos = pos
    BY <1>3, <2>1
  <2> QED
    BY <2>2 DEF Passed, Before
<1>5. CASE ~(pos <= Len(mem[t])) /\ later = {}
  <2>1. ASSUME NEW s \in 1..LastTable, NEW i \in 1..Len(mem[s]), ~(s < t)
        PROVE  s = t /\ i < pos
    <3>1. mem[s] # <<>>
      BY <2>1, SlotTypes, EmptySeq
    <3>2. s \notin (t + 1)..LastTable
      BY <1>5, <3>1
    <3>3. s = t
      BY <1>1, <2>1, <3>2
    <3> QED
      BY <1>1, <1>5, <3>3
  <2> QED
    BY <1>2, <1>5, <2>1 DEF Before
<1>6. CASE ~(pos <= Len(mem[t])) /\ later # {}
  <2>0. later \subseteq 1..LastTable
    BY <1>1
  <2> DEFINE m == Min(later)
  <2>1. m \in later /\ \A u \in later : m <= u
    <3> HIDE DEF later
    <3> QED
      BY <1>6, <2>0, FirstTable
  <2>2. n = At(m, 1) /\ m \in 1..LastTable /\ 1 \in 1..Len(mem[m]) /\ m > t
    <3>1. n = At(m, 1)
      BY <1>2, <1>6
    <3>2. m \in 1..LastTable /\ mem[m] # <<>> /\ m \in (t + 1)..LastTable
      BY <2>0, <2>1
    <3> HIDE DEF m
    <3> QED
      BY <1>1, <3>1, <3>2, SlotTypes
  <2> HIDE DEF m
  <2>3. n # NoUpsert /\ Reads(mem, val, named, n)
        /\ n.table = m /\ n.pos = 1
    BY <1>3, <2>2
  <2>4. ASSUME NEW s \in 1..LastTable, NEW i \in 1..Len(mem[s]), Passed(n, s, i), ~(s < t)
        PROVE  s = t /\ i < pos
    <3>1. mem[s] # <<>>
      BY SlotTypes, EmptySeq
    <3>2. s < m
      BY <2>3, <2>4, <1>1 DEF Passed, Before
    <3>3. s \notin (t + 1)..LastTable
      BY <1>1, <2>1, <2>2, <3>1, <3>2
    <3>4. s = t
      BY <1>1, <2>4, <3>3
    <3> QED
      BY <1>1, <1>6, <3>4
  <2> QED
    BY <2>3, <2>4 DEF Before
<1> QED
  BY <1>4, <1>5, <1>6

\* A flush starts with the first record there is.
LEMMA FirstUpsert ==
  ASSUME NEW mem \in [1..LastTable -> Seq(Record)], NEW val \in [Record -> 0..MaxVersion], NEW named,
         \A s \in 1..LastTable : \A i \in 1..Len(mem[s]) : val[mem[s][i]] > 0,
         mem[LastTable] # <<>>
  PROVE  LET n == NextUpsert(mem, val, named, 1, 1)
         IN /\ n # NoUpsert /\ Reads(mem, val, named, n)
            /\ \A s \in 1..LastTable : \A i \in 1..Len(mem[s]) : ~Passed(n, s, i)
<1> DEFINE n == NextUpsert(mem, val, named, 1, 1)
<1>1. 1 \in 1..LastTable /\ 1 \in Nat \ {0} /\ LastTable \in 1..LastTable
  BY Constants
<1>2. \/ /\ n = NoUpsert
         /\ \A s \in 1..LastTable : \A i \in 1..Len(mem[s]) : Before(s, i, 1, 1)
      \/ /\ n # NoUpsert /\ Reads(mem, val, named, n)
         /\ \A s \in 1..LastTable : \A i \in 1..Len(mem[s]) : Passed(n, s, i) => Before(s, i, 1, 1)
  BY <1>1, NextUpsertIsNext
<1>3. \A s \in 1..LastTable : \A i \in 1..Len(mem[s]) : ~Before(s, i, 1, 1)
  BY Constants, SlotTypes DEF Before
<1>4. 1 \in 1..Len(mem[LastTable])
  BY <1>1, SlotTypes
<1> HIDE DEF n
<1>5. /\ n # NoUpsert /\ Reads(mem, val, named, n)
      /\ \A s \in 1..LastTable : \A i \in 1..Len(mem[s]) : ~Passed(n, s, i)
  BY <1>1, <1>2, <1>3, <1>4
<1> QED
  BY <1>5 DEF n

\* The splice of one element.
LEMMA Spliced ==
  ASSUME NEW S, NEW s \in Seq(S), NEW k \in 1..Len(s)
  PROVE  LET r == RemoveAt(s, k)
         IN /\ r \in Seq(S) /\ Len(r) = Len(s) - 1
            /\ \A i \in 1..Len(r) : r[i] = IF i < k THEN s[i] ELSE s[i + 1]
<1> DEFINE a == SubSeq(s, 1, k - 1)
           b == SubSeq(s, k + 1, Len(s))
           r == a \o b
<1>1. Len(s) \in Nat /\ k \in Nat /\ \A i \in 1..Len(s) : s[i] \in S
  BY LenProperties, ElementOfSeq
<1>2. /\ a \in Seq(S) /\ Len(a) = k - 1
      /\ \A i \in 1..(k - 1) : a[i] = s[i]
  BY <1>1, SubSeqProperties
<1>3. /\ b \in Seq(S) /\ Len(b) = Len(s) - k
      /\ \A i \in 1..(Len(s) - k) : b[i] = s[k + i]
  BY <1>1, SubSeqProperties
<1> HIDE DEF a, b
<1>4. /\ r \in Seq(S) /\ Len(r) = Len(a) + Len(b)
      /\ \A i \in 1..Len(a) + Len(b) : r[i] = IF i <= Len(a) THEN a[i] ELSE b[i - Len(a)]
  BY <1>2, <1>3, ConcatProperties
<1> HIDE DEF r
<1>5. Len(r) = Len(s) - 1
  BY <1>1, <1>2, <1>3, <1>4
<1>6. ASSUME NEW i \in 1..Len(r)
      PROVE  r[i] = IF i < k THEN s[i] ELSE s[i + 1]
  <2>1. CASE i < k
    BY <1>1, <1>2, <1>4, <1>5, <2>1
  <2>2. CASE ~(i < k)
    <3>1. i - Len(a) \in 1..(Len(s) - k) /\ k + (i - Len(a)) = i + 1 /\ ~(i <= Len(a))
      BY <1>1, <1>2, <1>5, <2>2
    <3>2. i \in 1..Len(a) + Len(b)
      BY <1>1, <1>2, <1>3, <1>5
    <3>3. r[i] = b[i - Len(a)]
      BY <1>4, <3>1, <3>2
    <3> QED
      BY <1>3, <2>2, <3>1, <3>3
  <2> QED
    BY <2>1, <2>2
<1>7. RemoveAt(s, k) = r
  BY DEF RemoveAt, r, a, b
<1> QED
  BY <1>4, <1>5, <1>6, <1>7

\* What a restart puts into an array: every record of the table that has a version, once.
LEMMA HoldingHolds ==
  ASSUME NEW have \in [Record -> 0..MaxVersion], NEW t \in 1..LastTable
  PROVE  LET h == Holding(have, t)
             S == {x \in Record : Table(x) = t /\ have[x] > 0}
         IN /\ h \in Seq(Record) /\ h \in Seq(S)
            /\ \A i, j \in 1..Len(h) : h[i] = h[j] => i = j
            /\ \A x \in S : x \in ToSet(h)
            /\ \A i \in 1..Len(h) : h[i] \in S
<1> DEFINE S == {x \in Record : Table(x) = t /\ have[x] > 0}
           h == Holding(have, t)
<1>1. IsFiniteSet(S) /\ S \subseteq Record
  <2>1. S \subseteq Record
    OBVIOUS
  <2> QED
    BY <2>1, Constants, FS_Subset
<1> HIDE DEF S
<1>2. Cardinality(S) \in Nat /\ ExistsBijection(1..Cardinality(S), S)
  BY <1>1, FS_CardinalityType
<1>3. \E f \in [1..Cardinality(S) -> S] : IsInjective(f)
  BY <1>2 DEF ExistsBijection, Bijection, Injection
<1>4. h \in [1..Cardinality(S) -> S] /\ IsInjective(h)
  BY <1>3 DEF Holding, SetToSeq, S
<1> HIDE DEF h
<1>5. h \in Injection(1..Cardinality(S), S)
  BY <1>4 DEF Injection
<1>6. h \in Surjection(1..Cardinality(S), S)
  <2>1. IsFiniteSet(1..Cardinality(S)) /\ Cardinality(1..Cardinality(S)) = Cardinality(S)
    BY <1>2, FS_Interval
  <2> QED
    BY <1>1, <1>5, <2>1, FS_Injection
<1>7. Len(h) = Cardinality(S) /\ h \in Seq(S) /\ DOMAIN h = 1..Len(h)
  BY <1>2, <1>4
<1>8. h \in Seq(Record)
  BY <1>1, <1>7
<1>9. \A x \in S : x \in ToSet(h)
  BY <1>6, <1>7 DEF Surjection, ToSet
<1>10. \A i, j \in 1..Len(h) : h[i] = h[j] => i = j
  BY <1>4, <1>7 DEF IsInjective
<1> QED
  BY <1>4, <1>7, <1>8, <1>9, <1>10 DEF h, S

-----------------------------------------------------------------------------
(* Memory *)

\* A record in a slot is in memory, in the table it belongs to.
LEMMA SlotHolds ==
  ASSUME TypeOK, NEW t \in 1..LastTable, NEW i \in Slots(t)
  PROVE  memory[t][i] \in Record /\ Table(memory[t][i]) = t /\ InMemory(memory[t][i])
<1>1. memory[t] \in Seq({x \in Record : Table(x) = t})
  BY DEF TypeOK
<1>2. memory[t][i] \in {x \in Record : Table(x) = t}
  BY <1>1, ElementOfSeq DEF Slots
<1>3. i \in DOMAIN memory[t]
  BY <1>1, LenProperties DEF Slots
<1> QED
  BY <1>2, <1>3 DEF InMemory, ToSet

\* A record in memory has a slot.
LEMMA HeldHasSlot ==
  ASSUME TypeOK, NEW x \in Record, InMemory(x)
  PROVE  Table(x) \in 1..LastTable /\ \E i \in Slots(Table(x)) : memory[Table(x)][i] = x
<1>1. Table(x) \in 1..LastTable
  BY Constants
<1>2. DOMAIN memory[Table(x)] = Slots(Table(x))
  BY <1>1, LenProperties DEF TypeOK, Slots
<1> QED
  BY <1>1, <1>2 DEF InMemory, ToSet

\* What memory holds has a version, said of records.
LEMMA HeldVersion ==
  ASSUME TypeOK, HeldHasVersion, NEW x \in Record, InMemory(x)
  PROVE  value[x] > 0
BY HeldHasSlot DEF HeldHasVersion

\* What a start puts into memory.
LEMMA LoadedHolds ==
  ASSUME NEW have \in [Record -> 0..MaxVersion]
  PROVE  \A t \in 1..LastTable :
           LET h == Holding(have, t)
           IN /\ h \in Seq(Record) /\ h \in Seq({x \in Record : Table(x) = t})
              /\ \A i \in 1..Len(h) : h[i] \in Record /\ have[h[i]] > 0
              /\ \A i, j \in 1..Len(h) : h[i] = h[j] => i = j
              /\ \A x \in Record : Table(x) = t /\ have[x] > 0 => x \in ToSet(h)
<1> SUFFICES ASSUME NEW t \in 1..LastTable
             PROVE  LET h == Holding(have, t)
                    IN /\ h \in Seq(Record) /\ h \in Seq({x \in Record : Table(x) = t})
                       /\ \A i \in 1..Len(h) : h[i] \in Record /\ have[h[i]] > 0
                       /\ \A i, j \in 1..Len(h) : h[i] = h[j] => i = j
                       /\ \A x \in Record : Table(x) = t /\ have[x] > 0 => x \in ToSet(h)
  OBVIOUS
<1> DEFINE h == Holding(have, t)
           A == {x \in Record : Table(x) = t /\ have[x] > 0}
           B == {x \in Record : Table(x) = t}
<1>1. /\ h \in Seq(Record) /\ h \in Seq(A)
      /\ \A i, j \in 1..Len(h) : h[i] = h[j] => i = j
      /\ \A x \in A : x \in ToSet(h)
      /\ \A i \in 1..Len(h) : h[i] \in A
  BY HoldingHolds
<1>2. A \subseteq B
  OBVIOUS
<1>3. h \in Seq(B)
  <2> HIDE DEF A, B, h
  <2> QED
    BY <1>1, <1>2
<1> HIDE DEF h
<1> QED
  BY <1>1, <1>3 DEF h

-----------------------------------------------------------------------------
(* Starts *)

\* A process that has just started satisfies the invariant.
LEMMA RestedIsSafe == Rested => IInv
<1> SUFFICES ASSUME Rested PROVE IInv
  OBVIOUS
<1> USE DEF Rested
<1>1. TypeOK /\ value \in [Record -> 0..MaxVersion]
  BY DEF TypeOK
<1>2. /\ \A t \in 1..LastTable :
           /\ \A i \in Slots(t) : memory[t][i] \in Record /\ value[memory[t][i]] > 0
           /\ \A i, j \in Slots(t) : memory[t][i] = memory[t][j] => i = j
      /\ \A x \in Record : value[x] > 0 => x \in ToSet(memory[Table(x)])
  <2>1. \A t \in 1..LastTable : memory[t] = Holding(value, t)
    OBVIOUS
  <2> QED
    <3>1. \A t \in 1..LastTable :
            LET h == memory[t]
            IN /\ \A i \in 1..Len(h) : h[i] \in Record /\ value[h[i]] > 0
               /\ \A i, j \in 1..Len(h) : h[i] = h[j] => i = j
               /\ \A x \in Record : Table(x) = t /\ value[x] > 0 => x \in ToSet(h)
      BY ONLY <1>1, <2>1, LoadedHolds
    <3>2. \A x \in Record : Table(x) \in 1..LastTable
      BY Constants
    <3> QED
      BY ONLY <3>1, <3>2 DEF Slots
<1>3. Running = {} /\ 1 \in 1..LastTable
  BY Constants DEF Running
<1>4. GateHolds /\ Progress /\ SentIsNewer
  BY <1>3, FlushAssumption, Constants DEF GateHolds, Alone, Progress, SentIsNewer, Record
<1>5. HeldHasVersion
  BY <1>2 DEF HeldHasVersion
<1>6. MemoryIsNewest /\ DueIsPast
  BY <1>1, <1>3 DEF MemoryIsNewest, DueIsPast
<1>7. Settled
  <2>1. \A t \in 1..LastTable : \A i \in Slots(t) :
          mode = "prisma" => stored[memory[t][i]] = due[memory[t][i]]
             /\ due[memory[t][i]] \in Nat
    BY <1>1, <1>2
  <2> QED
    BY <2>1 DEF Settled, Durable
<1>8. UsersAreDistinct /\ CheckedIsNew
  BY <1>2, <1>3 DEF UsersAreDistinct, CheckedIsNew, Awaiting
<1>9. UserRemains
  <2>1. PICK x \in Record : Table(x) = 1 /\ value[x] > 0
    BY DEF HasUser
  <2>2. x \in ToSet(memory[1])
    BY <1>2, <2>1
  <2>3. memory[1] # <<>>
    BY <2>2 DEF ToSet
  <2> QED
    BY <2>3 DEF UserRemains
<1>10. FlushIsForAnswer /\ AwaitingHasRow /\ XuidsFollow
  BY <1>3 DEF FlushIsForAnswer, AwaitingHasRow, Awaiting, XuidsFollow
<1> QED
  BY <1>1, <1>4, <1>5, <1>6, <1>7, <1>8, <1>9, <1>10 DEF IInv

\* The initial states satisfy the invariant.
LEMMA InitIInv == Init => IInv
<1> SUFFICES ASSUME Init PROVE Rested
  BY RestedIsSafe
<1> USE DEF Init
<1>1. Seeded \in [Record -> 0..MaxVersion] /\ [x \in Record |-> 0] \in [Record -> 0..MaxVersion]
  BY Constants DEF Seeded
<1>2. /\ memory \in [1..LastTable -> Seq(Record)]
      /\ \A t \in 1..LastTable : memory[t] \in Seq({x \in Record : Table(x) = t})
  <2>1. /\ memory = [t \in 1..LastTable |-> memory[t]]
        /\ \A t \in 1..LastTable : memory[t] = Holding(Seeded, t)
    OBVIOUS
  <2>2. \A t \in 1..LastTable : memory[t] \in Seq(Record) /\ memory[t] \in Seq({x \in Record : Table(x) = t})
    BY ONLY <1>1, <2>1, LoadedHolds
  <2> QED
    BY ONLY <2>1, <2>2
<1>3. Running = {}
  BY DEF Running
<1>4. TypeOK
  <2>1. \A m \in {value, stored, file, due} : m \in [Record -> 0..MaxVersion]
    BY <1>1
  <2>2. /\ 0 \in 0..MaxCrash /\ 0 \in 0..MaxOutage /\ LastTable + 1 \in 1..(LastTable + 1)
    BY Constants
  <2> QED
    BY ONLY <1>2, <1>3, <2>1, <2>2, Init DEF TypeOK, Init, Running
<1>5. HasUser(value)
  <2>1. PICK x \in Seeds : TableOf[x] = 1
    BY FlushAssumption
  <2>2. x \in Record /\ Table(x) = 1 /\ Seeded[x] = 1
    BY <2>1, FlushAssumption, Constants DEF Seeded
  <2> QED
    BY <2>2 DEF HasUser
<1>6. UntouchedIsNowhere
  BY <1>3, FlushAssumption DEF UntouchedIsNowhere, Untouched, Seeded, Record
<1> QED
  BY <1>4, <1>5, <1>6 DEF Rested, Awaiting

-----------------------------------------------------------------------------
(* Steps that leave the flushes alone *)

\* What is untouched is in no slot.
LEMMA UntouchedIsNotHeld ==
  ASSUME TypeOK, UntouchedIsNowhere, HeldHasVersion, NEW x \in Record, Untouched(x)
  PROVE  ~InMemory(x) /\ value[x] = 0 /\ stored[x] = 0 /\ due[x] = 0 /\ file[x] = 0
BY HeldVersion DEF UntouchedIsNowhere, TypeOK

\* There is a user in what the working copy holds.
LEMMA MemoryHasUser ==
  ASSUME TypeOK, HeldHasVersion, memory[1] # <<>>
  PROVE  HasUser(value)
<1>1. 1 \in 1..LastTable /\ memory \in [1..LastTable -> Seq(Record)]
  BY Constants DEF TypeOK
<1>2. 1 \in Slots(1)
  BY <1>1, SlotTypes DEF Slots
<1>3. memory[1][1] \in Record /\ Table(memory[1][1]) = 1 /\ value[memory[1][1]] > 0
  BY <1>1, <1>2, SlotHolds DEF HeldHasVersion
<1> QED
  BY <1>3 DEF HasUser

\* What an edit does to the parts of the invariant that are about memory.
LEMMA EditStep ==
  ASSUME IInv, Edit
  PROVE  /\ UserRemains'
         /\ \A x \in Record : Untouched(x)' =>
              /\ Untouched(x) /\ value'[x] = 0 /\ stored'[x] = 0 /\ file'[x] = 0 /\ due[x] = 0
              /\ \A q \in Running : sent[q].record # x
         /\ mode = "prisma" => \A x \in Record : InMemory(x)' =>
              /\ stored[x] <= value'[x]
              /\ \A q \in Running : sent[q].record = x => sent[q].version <= value'[x]
<1> USE DEF IInv, Edit
<1>1. ASSUME NEW x \in Record, Untouched(x)'
      PROVE  /\ Untouched(x) /\ value'[x] = 0 /\ stored'[x] = 0 /\ file'[x] = 0 /\ due[x] = 0
             /\ \A q \in Running : sent[q].record # x
  BY <1>1 DEF UntouchedIsNowhere
<1>2. UserRemains'
  <2>1. HasUser(value)
    BY MemoryHasUser DEF UserRemains
  <2> QED
    BY <2>1 DEF UserRemains, HasUser
<1>3. ASSUME mode = "prisma", NEW x \in Record, InMemory(x)'
      PROVE  /\ stored[x] <= value'[x]
             /\ \A q \in Running : sent[q].record = x => sent[q].version <= value'[x]
  <2>1. value[x] \in Nat /\ value'[x] \in Nat /\ stored[x] \in Nat
    BY DEF TypeOK, EditTypes
  <2>2. CASE Untouched(x)
    BY <2>1, <2>2 DEF UntouchedIsNowhere
  <2>3. CASE InMemory(x) /\ value'[x] >= value[x]
    <3>1. stored[x] <= value[x]
      BY <1>3, <2>3 DEF MemoryIsNewest
    <3>2. ASSUME NEW q \in Running, sent[q].record = x
          PROVE  sent[q].version <= value'[x]
      <4>1. sent[q].version <= value[x] /\ sent[q].version \in Nat
        BY <1>3, <2>3, <3>2 DEF MemoryIsNewest, TypeOK, Upserts
      <4> QED
        BY <2>1, <2>3, <4>1
    <3> QED
      BY <2>1, <2>3, <3>1, <3>2
  <2> QED
    BY <1>3, <2>2, <2>3
<1> QED
  BY <1>1, <1>2, <1>3

\* An XUID that memory has after an edit is stored where its row is, and in what is sent.
LEMMA NewNames ==
  ASSUME IInv, Edit, mode = "prisma", NEW x \in xuid'
  PROVE  /\ stored[x] > 0 => x \in storedXuid
         /\ \A q \in Running : sent[q].record = x => sent[q].xuid
<1>1. CASE x \in xuid
  BY <1>1 DEF IInv, XuidsFollow
<1>2. CASE Untouched(x)
  <2>1. x \in Record
    BY DEF Edit, NamesFew
  <2> QED
    BY <1>2, <2>1 DEF IInv, UntouchedIsNowhere
<1> QED
  BY <1>1, <1>2 DEF Edit, NamesFew

\* What grows stays stored as far as it was: the new records have never been answered for.
LEMMA GrowsDurable ==
  ASSUME IInv, EditTypes, Grows, UNCHANGED <<stored, due>>,
         NEW t \in 1..LastTable, NEW i \in Slots(t)', i \in Slots(t) => Durable(t, i)
  PROVE  Durable(t, i)'
<1>1. CASE i \in Slots(t)
  BY <1>1 DEF Grows, Durable
<1>2. CASE i \notin Slots(t)
  <2>1. memory'[t][i] \in Record
    BY ElementOfSeq DEF EditTypes, Slots
  <2>2. stored[memory'[t][i]] = 0 /\ due[memory'[t][i]] = 0
    BY <1>2, <2>1 DEF Grows, IInv, UntouchedIsNowhere
  <2> QED
    BY <2>2 DEF Durable
<1> QED
  BY <1>1, <1>2

\* An edit without an answer keeps the invariant.
LEMMA SilentStep ==
  ASSUME IInv, Silent
  PROVE  IInv'
<1> USE DEF IInv
<1>1. /\ Edit /\ EditTypes /\ Grows
      /\ UNCHANGED <<mode, stored, storedXuid, crashes, outages, flushing, history>>
  BY DEF Silent, Edit
<1>2. /\ UNCHANGED <<flush, on, sent, flushInFlight, due, overlapped, herd, refusedAt>>
      /\ Running' = Running /\ Quiet' = Quiet /\ NoWaiters' = NoWaiters
  BY <1>1 DEF flushing, history, Running, Quiet, NoWaiters
<1>3. TypeOK'
  <2>1. file' \in [Record -> 0..MaxVersion] /\ xuid' \subseteq Record /\ fileXuid' \subseteq Record
    BY <1>1 DEF Edit, EditTypes, NamesFew, TypeOK
  <2> QED
    BY <1>1, <1>2, <2>1 DEF EditTypes, TypeOK
<1>4. GateHolds'
  BY <1>2 DEF GateHolds, Alone
<1>5. Progress'
  <2> SUFFICES ASSUME ~overlapped, NoWaiters, NEW q \in Running
               PROVE  /\ sent[q].pos \in Slots(sent[q].table)'
                      /\ sent[q].record = memory'[sent[q].table][sent[q].pos]
                      /\ sent[q].version >= due[sent[q].record]
                      /\ \A t \in 1..LastTable : \A i \in Slots(t)' :
                           Passed(sent[q], t, i) => Durable(t, i)'
    BY <1>2 DEF Progress
  <2>1. /\ sent[q].pos \in Slots(sent[q].table)
        /\ sent[q].record = memory[sent[q].table][sent[q].pos]
        /\ sent[q].version >= due[sent[q].record]
        /\ \A t \in 1..LastTable : \A i \in Slots(t) : Passed(sent[q], t, i) => Durable(t, i)
    BY DEF Progress
  <2>2. sent[q].table \in 1..LastTable
    BY DEF TypeOK, Upserts
  <2> QED
    BY <1>1, <1>2, <2>1, <2>2, GrowsDurable DEF Grows
<1>6. Settled'
  BY <1>1, <1>2, GrowsDurable DEF Settled
<1>7. UntouchedIsNowhere' /\ MemoryIsNewest' /\ UserRemains'
  BY <1>1, <1>2, EditStep DEF UntouchedIsNowhere, MemoryIsNewest
<1>8. SentIsNewer'
  BY <1>1, <1>2 DEF SentIsNewer
<1>9. DueIsPast'
  <2>1. ASSUME NEW x \in Record PROVE due[x] <= value'[x]
    <3>1. due[x] \in Nat /\ value[x] \in Nat /\ value'[x] \in Nat
      BY <1>1 DEF TypeOK, EditTypes
    <3>2. due[x] <= value[x] /\ value'[x] >= value[x]
      BY DEF DueIsPast, Silent
    <3> QED
      BY <3>1, <3>2
  <2> QED
    BY <1>2, <2>1 DEF DueIsPast
<1>10. FlushIsForAnswer'
  <2>1. memory[LastTable] # <<>> => memory'[LastTable] # <<>>
    <3>1. LastTable \in 1..LastTable
      BY Constants
    <3>2. memory[LastTable] # <<>> <=> 1 \in Slots(LastTable)
      BY <3>1, SlotTypes DEF TypeOK, Slots
    <3>3. memory'[LastTable] # <<>> <=> 1 \in Slots(LastTable)'
      BY <1>1, <3>1, SlotTypes DEF EditTypes, Slots
    <3> QED
      BY <1>1, <3>1, <3>2, <3>3 DEF Grows
  <2> QED
    BY <1>1, <1>2, <2>1 DEF FlushIsForAnswer, Silent
<1>11. XuidsFollow'
  BY <1>1, <1>2, NewNames DEF XuidsFollow
<1> QED
  BY <1>1, <1>3, <1>4, <1>5, <1>6, <1>7, <1>8, <1>9, <1>10, <1>11 DEF Edit

\* A flush that starts.
LEMMA StartedFlush ==
  ASSUME EditTypes, HeldHasVersion', memory'[LastTable] # <<>>,
         NEW u, u = NextUpsert(memory', value', xuid', 1, 1)
  PROVE  /\ u \in Upserts /\ u # NoUpsert /\ u.version = value'[u.record]
         /\ u.xuid = (u.record \in xuid')
         /\ u.table \in 1..LastTable /\ u.pos \in Slots(u.table)'
         /\ u.record \in Record /\ u.record = memory'[u.table][u.pos] /\ InMemory(u.record)'
         /\ \A t \in 1..LastTable : \A i \in Slots(t)' : ~Passed(u, t, i)
<1>1. /\ u # NoUpsert /\ Reads(memory', value', xuid', u)
      /\ \A t \in 1..LastTable : \A i \in 1..Len(memory'[t]) : ~Passed(u, t, i)
  BY FirstUpsert DEF EditTypes, HeldHasVersion, Slots
<1>2. /\ u.table \in 1..LastTable /\ u.pos \in Slots(u.table)'
      /\ u.record \in Record /\ u.record = memory'[u.table][u.pos]
  BY <1>1 DEF Upserts, Reads, Slots
<1>3. InMemory(u.record)'
  <2>1. memory'[u.table] \in Seq({x \in Record : Table(x) = u.table})
    BY <1>2 DEF EditTypes
  <2>2. memory'[u.table][u.pos] \in {x \in Record : Table(x) = u.table}
    BY <1>2, <2>1, ElementOfSeq DEF Slots
  <2>3. DOMAIN memory'[u.table] = Slots(u.table)'
    BY <2>1, LenProperties DEF Slots
  <2> QED
    BY <1>2, <2>2, <2>3 DEF InMemory, ToSet
<1> QED
  BY <1>1, <1>2, <1>3 DEF Slots, Reads

\* An edit with an answer keeps the invariant: the answer waits for the flush under way
\* or starts one from the first record on.
LEMMA AnswerStep ==
  ASSUME IInv, NEW q \in Requests, Answers(q)
  PROVE  IInv'
<1> USE DEF IInv
<1>1. /\ Edit /\ EditTypes /\ Answer(q) /\ memory'[LastTable] # <<>>
      /\ UNCHANGED <<mode, stored, storedXuid, file, fileXuid, crashes, outages, herd, refusedAt>>
      /\ due' = value' /\ request' = [request EXCEPT ![q] = "answered"]
      /\ xuid' \subseteq Record
  BY DEF Answers, Edit, Answer, NamesFew, postgres, disk
<1>2. /\ flush[q] = "none" /\ q \in Record
      /\ \A x \in Record : value'[x] \in Nat /\ stored[x] \in Nat
  <2>1. request[q] # "answered"
    BY DEF Answers, Awaiting
  <2>2. flush[q] = "none"
    BY <2>1 DEF FlushIsForAnswer
  <2>3. \A x \in Record : value'[x] \in 0..MaxVersion /\ stored[x] \in 0..MaxVersion
    BY <1>1 DEF EditTypes, TypeOK
  <2> QED
    BY <2>2, <2>3, Constants
<1>3. DueIsPast' /\ UserRemains' /\ HeldHasVersion' /\ UsersAreDistinct' /\ CheckedIsNew'
      /\ AwaitingHasRow'
  BY <1>1, <1>2, EditStep DEF DueIsPast, Edit
<1>4. ASSUME NEW x \in Record, Untouched(x)'
      PROVE  /\ value'[x] = 0 /\ stored'[x] = 0 /\ file'[x] = 0 /\ due'[x] = 0
             /\ \A p \in Running : sent[p].record # x
  BY <1>1, <1>4, EditStep
<1>5. ASSUME mode = "prisma", NEW x \in Record, InMemory(x)'
      PROVE  /\ stored[x] <= value'[x]
             /\ \A p \in Running : sent[p].record = x => sent[p].version <= value'[x]
  BY <1>1, <1>5, EditStep
<1>6. CASE mode = "memory"
  <2>1. /\ UNCHANGED <<flush, on, sent, flushInFlight, overlapped>>
        /\ Running' = {} /\ Running = {} /\ NoWaiters
    BY <1>1, <1>6 DEF Answer, flushing, Running, NoWaiters, FlushIsForAnswer
  <2>2. TypeOK'
    BY <1>1, <2>1 DEF TypeOK, EditTypes
  <2>3. GateHolds' /\ Progress' /\ Settled' /\ MemoryIsNewest' /\ SentIsNewer'
    BY <1>1, <1>6, <2>1 DEF GateHolds, Alone, Progress, Settled, MemoryIsNewest, SentIsNewer
  <2>4. UntouchedIsNowhere'
    BY <1>4, <2>1 DEF UntouchedIsNowhere
  <2>5. FlushIsForAnswer' /\ XuidsFollow'
    BY <1>1, <1>6, <2>1 DEF FlushIsForAnswer, XuidsFollow
  <2> QED
    BY <1>3, <2>2, <2>3, <2>4, <2>5
<1>7. CASE mode = "prisma" /\ flushInFlight # None
  <2>1. /\ flush' = [flush EXCEPT ![q] = "waiting"] /\ on' = [on EXCEPT ![q] = flushInFlight]
        /\ UNCHANGED <<sent, flushInFlight, overlapped>>
    BY <1>1, <1>7 DEF Answer, Gate
  <2>2. /\ flush'[q] = "waiting" /\ on'[q] = flushInFlight /\ flushInFlight \in Requests
        /\ \A p \in Requests \ {q} : flush'[p] = flush[p] /\ on'[p] = on[p]
    BY <1>7, <2>1 DEF TypeOK
  <2>3. Running' = Running /\ ~NoWaiters' /\ ~Quiet'
    BY <1>2, <2>2 DEF Running, NoWaiters, Quiet
  <2>4. TypeOK'
    BY <1>1, <1>7, <2>1, <2>3 DEF TypeOK, EditTypes
  <2>5. GateHolds'
    BY <1>1, <1>2, <1>7, <2>1, <2>2 DEF GateHolds, Alone
  <2>6. Progress' /\ Settled'
    BY <2>3 DEF Progress, Settled
  <2>7. UntouchedIsNowhere' /\ MemoryIsNewest' /\ SentIsNewer'
    BY <1>1, <1>4, <1>5, <2>1, <2>3 DEF UntouchedIsNowhere, MemoryIsNewest, SentIsNewer
  <2>8. FlushIsForAnswer'
    BY <1>1, <1>7, <2>2 DEF FlushIsForAnswer, TypeOK
  <2>9. XuidsFollow'
    BY <1>1, <1>7, <2>1, <2>3, NewNames DEF XuidsFollow
  <2> QED
    BY <1>3, <2>4, <2>5, <2>6, <2>7, <2>8, <2>9
<1>8. CASE mode = "prisma" /\ flushInFlight = None
  <2>1. /\ flush' = [flush EXCEPT ![q] = "running"] /\ flushInFlight' = q
        /\ sent' = [sent EXCEPT ![q] = NextUpsert(memory', value', xuid', 1, 1)]
        /\ overlapped' = (overlapped \/ Running # {}) /\ on' = on
    BY <1>1, <1>8 DEF Answer, Gate
  <2>2. /\ flush'[q] = "running" /\ sent'[q] = NextUpsert(memory', value', xuid', 1, 1)
        /\ \A p \in Requests \ {q} : flush'[p] = flush[p] /\ sent'[p] = sent[p]
    BY <2>1 DEF TypeOK
  <2>3. Running' = Running \cup {q} /\ q \notin Running /\ ~Quiet'
    BY <1>2, <2>2 DEF Running, Quiet
  <2>4. /\ sent'[q] \in Upserts /\ sent'[q].version = value'[sent'[q].record]
        /\ sent'[q].xuid = (sent'[q].record \in xuid')
        /\ sent'[q].table \in 1..LastTable /\ sent'[q].pos \in 1..Len(memory'[sent'[q].table])
        /\ sent'[q].record \in Record /\ sent'[q].record = memory'[sent'[q].table][sent'[q].pos]
        /\ sent'[q].record \in ToSet(memory'[Table(sent'[q].record)])
        /\ \A t \in 1..LastTable : \A i \in Slots(t)' : ~Passed(sent'[q], t, i)
    BY <1>1, <2>2, StartedFlush DEF Edit, InMemory, Slots
  <2>5. TypeOK'
    <3>1. sent' \in [Requests -> Upserts \cup {NoUpsert}]
      BY <2>1, <2>2, <2>4 DEF TypeOK
    <3>2. \A p \in Running' : sent'[p] \in Upserts
      BY <2>2, <2>3, <2>4 DEF TypeOK, Running
    <3>3. overlapped' \in BOOLEAN /\ flushInFlight' \in Requests \cup {None}
      BY <2>1 DEF TypeOK
    <3>4. flush' \in [Requests -> {"none", "waiting", "running", "done", "failed"}]
      BY <2>1 DEF TypeOK
    <3> QED
      BY <1>1, <2>1, <3>1, <3>2, <3>3, <3>4 DEF TypeOK, EditTypes
  <2>6. ~overlapped => Running = {} /\ NoWaiters /\ ~overlapped'
    BY <1>8, <2>1, Constants DEF GateHolds, Alone, Running, NoWaiters, Record
  <2>7. GateHolds'
    <3>1. overlapped' => herd'
      BY <1>1, <2>6 DEF GateHolds
    <3>2. ASSUME ~overlapped' PROVE Alone'
      BY <2>1, <2>2, <2>6, <3>2 DEF Alone, Running, NoWaiters
    <3> QED
      BY <3>1, <3>2 DEF GateHolds
  <2>8. Progress'
    <3> SUFFICES ASSUME ~overlapped', NEW p \in Running'
                 PROVE  /\ sent'[p].pos \in 1..Len(memory'[sent'[p].table])
                        /\ sent'[p].record = memory'[sent'[p].table][sent'[p].pos]
                        /\ sent'[p].version >= due'[sent'[p].record]
                        /\ \A t \in 1..LastTable : \A i \in Slots(t)' :
                             Passed(sent'[p], t, i) => Durable(t, i)'
      BY DEF Progress, Slots
    <3>1. p = q
      BY <2>1, <2>3, <2>6
    <3>2. sent'[q].version >= due'[sent'[q].record]
      BY <1>1, <1>2, <2>4
    <3> QED
      BY <2>4, <3>1, <3>2
  <2>9. Settled'
    BY <2>3 DEF Settled
  <2>10. UntouchedIsNowhere'
    <3> SUFFICES ASSUME NEW x \in Record, Untouched(x)', NEW p \in Running'
                 PROVE  sent'[p].record # x
      BY <1>4 DEF UntouchedIsNowhere
    <3>1. value'[x] = 0 /\ \A r \in Running : sent[r].record # x
      BY <1>4
    <3>2. value'[sent'[q].record] > 0
      BY <2>4 DEF Upserts
    <3> QED
      BY <2>2, <2>3, <3>1, <3>2 DEF Running
  <2>11. MemoryIsNewest'
    <3> SUFFICES ASSUME NEW x \in Record, InMemory(x)', NEW p \in Running', sent'[p].record = x
                 PROVE  sent'[p].version <= value'[x]
      BY <1>1, <1>5, <1>8 DEF MemoryIsNewest
    <3>1. CASE p = q
      BY <1>2, <2>4, <3>1
    <3>2. CASE p # q
      BY <1>5, <1>8, <2>2, <2>3, <3>2 DEF Running
    <3> QED
      BY <3>1, <3>2
  <2>12. SentIsNewer'
    <3> SUFFICES ASSUME ~overlapped', NEW p \in Running'
                 PROVE  stored'[sent'[p].record] <= sent'[p].version
      BY DEF SentIsNewer
    <3>1. p = q
      BY <2>1, <2>3, <2>6
    <3>2. stored[sent'[q].record] <= value'[sent'[q].record]
      BY <1>5, <1>8, <2>4 DEF InMemory
    <3> QED
      BY <1>1, <2>4, <3>1, <3>2
  <2>13. FlushIsForAnswer'
    BY <1>1, <1>8, <2>2 DEF FlushIsForAnswer, TypeOK
  <2>14. XuidsFollow'
    <3> SUFFICES ASSUME NEW x \in xuid'
                 PROVE  /\ stored[x] > 0 => x \in storedXuid
                        /\ \A p \in Running \cup {q} : sent'[p].record = x => sent'[p].xuid
      BY <1>1, <2>3 DEF XuidsFollow
    <3>1. /\ stored[x] > 0 => x \in storedXuid
          /\ \A p \in Running : sent[p].record = x => sent[p].xuid
      BY <1>1, <1>8, NewNames
    <3>2. \A p \in Running : p \in Requests /\ p # q
      BY <2>3 DEF Running
    <3> QED
      BY <2>2, <2>4, <3>1, <3>2
  <2> QED
    BY <1>3, <2>5, <2>7, <2>8, <2>9, <2>10, <2>11, <2>12, <2>13, <2>14
<1> QED
  BY <1>6, <1>7, <1>8 DEF TypeOK

-----------------------------------------------------------------------------
(* Steps of a flush *)

\* Postgres carries out an upsert, and the flush goes on or ends.
LEMMA UpsertStep ==
  ASSUME IInv, NEW q \in Requests, Upsert(q)
  PROVE  IInv'
<1> USE DEF IInv
<1> DEFINE u == sent[q]
           n == NextUpsert(memory, value, xuid, u.table, u.pos + 1)
           first == NextUpsert(memory, value, xuid, 1, 1)
           W == WaitersOf(q)
<1>1. /\ flush[q] = "running" /\ q \in Running
      /\ stored' = [stored EXCEPT ![u.record] = u.version]
      /\ storedXuid' = IF u.xuid THEN storedXuid \cup {u.record} ELSE storedXuid
      /\ UNCHANGED <<mode, memory, value, xuid, file, fileXuid, request, row, on, crashes,
                     outages, due>>
  BY DEF Upsert, Stores, Running, store, disk, progress
<1>2. /\ u \in Upserts /\ u.record \in Record /\ u.version \in 1..MaxVersion
      /\ u.table \in 1..LastTable /\ u.pos \in Nat \ {0} /\ u.pos + 1 \in Nat \ {0}
  BY <1>1 DEF TypeOK, Upserts
<1>3. /\ \A x \in Record : stored[x] \in Nat /\ value[x] \in Nat /\ due[x] \in Nat /\ stored'[x] \in Nat
      /\ stored' \in [Record -> 0..MaxVersion]
      /\ stored'[u.record] = u.version /\ \A x \in Record \ {u.record} : stored'[x] = stored[x]
  <2> HIDE DEF u
  <2>0. u.version \in 0..MaxVersion /\ u.version \in Nat
    BY <1>2, Constants
  <2>1. stored' \in [Record -> 0..MaxVersion]
    BY <1>1, <1>2, <2>0 DEF TypeOK
  <2>2. \A x \in Record : stored[x] \in 0..MaxVersion /\ value[x] \in 0..MaxVersion /\ due[x] \in 0..MaxVersion
    BY DEF TypeOK
  <2>3. stored'[u.record] = u.version /\ \A x \in Record \ {u.record} : stored'[x] = stored[x]
    BY <1>1, <1>2 DEF TypeOK
  <2>4. MaxVersion \in Nat /\ \A x \in Record : stored'[x] \in 0..MaxVersion
    BY <2>1, Constants
  <2> QED
    BY <2>1, <2>2, <2>3, <2>4
<1>4. mode = "prisma" /\ memory[LastTable] # <<>>
  BY <1>1 DEF FlushIsForAnswer
<1>5. /\ UserRemains' /\ HeldHasVersion' /\ UsersAreDistinct' /\ CheckedIsNew' /\ AwaitingHasRow'
      /\ DueIsPast'
  <2>1. HasUser(stored')
    BY <1>2, <1>3, <1>4 DEF UserRemains, HasUser
  <2> QED
    BY <1>1, <1>4, <2>1 DEF UserRemains, HeldHasVersion, UsersAreDistinct, CheckedIsNew,
                           AwaitingHasRow, DueIsPast, Slots, HasUser
<1>6. \A x \in Record : Untouched(x)' => Untouched(x) /\ stored'[x] = 0
  BY <1>1, <1>3 DEF Untouched, UntouchedIsNowhere
<1>7. ASSUME ~overlapped
      PROVE  /\ Running = {q} /\ flushInFlight = q
             /\ \A w \in Requests : flush[w] = "waiting" <=> w \in W
  BY <1>1, <1>7 DEF GateHolds, Alone, Running, WaitersOf
\* The records up to and with the one just stored are stored.
<1>8. ASSUME ~overlapped, NoWaiters, NEW t \in 1..LastTable, NEW i \in Slots(t),
             Passed(u, t, i) \/ (t = u.table /\ i = u.pos)
      PROVE  stored'[memory[t][i]] >= due[memory[t][i]]
  <2>1. /\ u.record = memory[u.table][u.pos] /\ u.version >= due[u.record]
        /\ Passed(u, t, i) => Durable(t, i)
    BY <1>1, <1>8 DEF Progress
  <2>2. memory[t][i] \in Record
    BY SlotHolds
  <2>3. CASE memory[t][i] = u.record
    BY <1>3, <2>1, <2>3
  <2>4. CASE memory[t][i] # u.record
    BY <1>3, <1>8, <2>1, <2>2, <2>4 DEF Durable
  <2> QED
    BY <2>3, <2>4
<1>9. /\ memory \in [1..LastTable -> Seq(Record)] /\ value \in [Record -> 0..MaxVersion]
      /\ \A s \in 1..LastTable : \A i \in 1..Len(memory[s]) : value[memory[s][i]] > 0
  BY DEF TypeOK, HeldHasVersion, Slots
<1>10. \/ /\ n = NoUpsert
          /\ \A t \in 1..LastTable : \A i \in Slots(t) :
               t < u.table \/ (t = u.table /\ i < u.pos + 1)
       \/ /\ n # NoUpsert /\ Reads(memory, value, xuid, n)
          /\ \A t \in 1..LastTable : \A i \in Slots(t) :
               Passed(n, t, i) => t < u.table \/ (t = u.table /\ i < u.pos + 1)
  <2> DEFINE k == u.pos + 1
             tab == u.table
             m == NextUpsert(memory, value, xuid, tab, k)
  <2>1. tab \in 1..LastTable /\ k \in Nat \ {0}
    BY <1>2
  <2>2. m = n
    OBVIOUS
  <2> HIDE DEF k, tab, u, n
  <2>3. \/ /\ m = NoUpsert
           /\ \A t \in 1..LastTable : \A i \in 1..Len(memory[t]) : Before(t, i, tab, k)
        \/ /\ m # NoUpsert /\ Reads(memory, value, xuid, m)
           /\ \A t \in 1..LastTable : \A i \in 1..Len(memory[t]) :
                Passed(m, t, i) => Before(t, i, tab, k)
    BY <1>9, <2>1, NextUpsertIsNext
  <2> HIDE DEF m
  <2> QED
    BY <2>2, <2>3 DEF Slots, Before, k, tab
<1>11. \A t \in 1..LastTable : \A i \in Slots(t) :
         t < u.table \/ (t = u.table /\ i < u.pos + 1) =>
           Passed(u, t, i) \/ (t = u.table /\ i = u.pos)
  <2>1. ASSUME NEW i \in Nat, i < u.pos + 1 PROVE i < u.pos \/ i = u.pos
    BY <1>2, <2>1
  <2>2. \A t \in 1..LastTable : \A i \in Slots(t) : i \in Nat
    BY DEF Slots
  <2> QED
    BY <2>1, <2>2 DEF Passed, Before
<1>12. \A x \in Record : InMemory(x)' <=> InMemory(x)
  BY <1>1 DEF InMemory
<1>13. \A x \in Record : InMemory(x) => stored'[x] <= value[x]
  BY <1>1, <1>3, <1>4 DEF MemoryIsNewest
\* What memory names is stored, and in what is sent.
<1>13a. storedXuid' \subseteq Record
  BY <1>1, <1>2 DEF TypeOK
<1>13b. ASSUME NEW x \in xuid
       PROVE  /\ stored'[x] > 0 => x \in storedXuid'
              /\ \A p \in Running : sent[p].record = x => sent[p].xuid
  <2>1. /\ x \in Record
        /\ stored[x] > 0 => x \in storedXuid
        /\ \A p \in Running : sent[p].record = x => sent[p].xuid
    BY <1>4 DEF XuidsFollow, TypeOK
  <2>2. CASE x = u.record
    BY <1>1, <2>1, <2>2
  <2>3. CASE x # u.record
    BY <1>1, <1>3, <2>1, <2>3
  <2> QED
    BY <2>1, <2>2, <2>3
<1>14. ASSUME n # NoUpsert
       PROVE  IInv'
  <2>1. /\ sent' = [sent EXCEPT ![q] = n]
        /\ UNCHANGED <<flush, flushInFlight, overlapped, herd, refusedAt>>
    BY <1>14 DEF Upsert
  <2>2. /\ Reads(memory, value, xuid, n) /\ n \in Upserts /\ n.version = value[n.record]
        /\ n.xuid = (n.record \in xuid)
        /\ \A t \in 1..LastTable : \A i \in Slots(t) :
             Passed(n, t, i) => Passed(u, t, i) \/ (t = u.table /\ i = u.pos)
    BY <1>10, <1>11, <1>14 DEF Reads
  <2> HIDE DEF n
  <2>3. /\ n.table \in 1..LastTable /\ n.pos \in Slots(n.table) /\ n.record \in Record
        /\ n.record = memory[n.table][n.pos]
    BY <2>2 DEF Upserts, Reads, Slots
  <2>4. InMemory(n.record) /\ value[n.record] > 0
    BY <2>3, SlotHolds DEF HeldHasVersion
  <2>5. sent'[q] = n /\ \A p \in Requests \ {q} : sent'[p] = sent[p]
    BY <2>1 DEF TypeOK
  <2>6. Running' = Running /\ Quiet' = Quiet /\ NoWaiters' = NoWaiters
    BY <2>1 DEF Running, Quiet, NoWaiters
  <2>7. TypeOK'
    <3>1. sent' \in [Requests -> Upserts \cup {NoUpsert}]
      BY <2>1, <2>2 DEF TypeOK
    <3>2. \A p \in Running' : sent'[p] \in Upserts
      BY <2>2, <2>5, <2>6 DEF TypeOK, Running
    <3> QED
      BY <1>1, <1>3, <1>13a, <2>1, <3>1, <3>2 DEF TypeOK
  <2>8. GateHolds' /\ FlushIsForAnswer'
    BY <1>1, <2>1 DEF GateHolds, Alone, FlushIsForAnswer
  <2>9. Progress'
    <3> SUFFICES ASSUME ~overlapped, NoWaiters, NEW p \in Running'
                 PROVE  /\ sent'[p].pos \in Slots(sent'[p].table)
                        /\ sent'[p].record = memory[sent'[p].table][sent'[p].pos]
                        /\ sent'[p].version >= due[sent'[p].record]
                        /\ \A t \in 1..LastTable : \A i \in Slots(t) :
                             Passed(sent'[p], t, i) => stored'[memory[t][i]] >= due[memory[t][i]]
      BY <1>1, <2>1, <2>6 DEF Progress, Slots, Durable
    <3>1. sent'[p] = n
      BY <1>7, <2>5, <2>6
    <3>2. n.version >= due[n.record]
      BY <1>3, <2>2, <2>3 DEF DueIsPast
    <3> QED
      BY <1>8, <2>2, <2>3, <3>1, <3>2
  <2>10. Settled'
    BY <1>1, <2>6 DEF Settled, Quiet
  <2>11. UntouchedIsNowhere'
    <3> SUFFICES ASSUME NEW x \in Record, Untouched(x)', NEW p \in Running'
                 PROVE  sent'[p].record # x
      BY <1>1, <1>6 DEF UntouchedIsNowhere
    <3>1. Untouched(x) /\ value[x] = 0 /\ \A r \in Running : sent[r].record # x
      BY <1>6 DEF UntouchedIsNowhere
    <3> QED
      BY <2>4, <2>5, <2>6, <3>1 DEF Running
  <2>12. MemoryIsNewest'
    <3> SUFFICES ASSUME NEW x \in Record, InMemory(x), NEW p \in Running', sent'[p].record = x
                 PROVE  sent'[p].version <= value[x]
      BY <1>1, <1>12, <1>13 DEF MemoryIsNewest
    <3>1. CASE p = q
      BY <1>3, <2>2, <2>5, <3>1
    <3>2. CASE p # q
      BY <1>4, <2>5, <2>6, <3>2 DEF MemoryIsNewest, Running
    <3> QED
      BY <3>1, <3>2
  <2>13. SentIsNewer'
    <3> SUFFICES ASSUME ~overlapped, NEW p \in Running'
                 PROVE  stored'[sent'[p].record] <= sent'[p].version
      BY <2>1 DEF SentIsNewer
    <3>1. sent'[p] = n
      BY <1>7, <2>5, <2>6
    <3> QED
      BY <1>13, <2>2, <2>3, <2>4, <3>1
  <2>14. XuidsFollow'
    <3> SUFFICES ASSUME NEW x \in xuid, NEW p \in Running', sent'[p].record = x
                 PROVE  sent'[p].xuid
      BY <1>1, <1>13b DEF XuidsFollow
    <3>1. CASE p = q
      BY <2>2, <2>5, <3>1
    <3>2. CASE p # q
      BY <1>13b, <2>5, <2>6, <3>2 DEF Running
    <3> QED
      BY <3>1, <3>2
  <2> QED
    BY <1>5, <2>7, <2>8, <2>9, <2>10, <2>11, <2>12, <2>13, <2>14
<1>15. ASSUME n = NoUpsert
       PROVE  IInv'
  <2>1. FinishFlush(q)
    BY <1>15 DEF Upsert
  <2>2. /\ flush' = [w \in Requests |-> IF w = q THEN "done"
                                        ELSE IF w \in W THEN "running" ELSE flush[w]]
        /\ sent' = [w \in Requests |-> IF w = q THEN NoUpsert
                                       ELSE IF w \in W THEN first ELSE sent[w]]
        /\ IF W = {} THEN flushInFlight' = None ELSE flushInFlight' \in W
        /\ overlapped' = (overlapped \/ Cardinality((Running \ {q}) \cup W) > 1)
        /\ herd' = (herd \/ Cardinality(W) > 1)
        /\ refusedAt' = refusedAt
    BY <2>1 DEF FinishFlush
  <2>3. /\ W \subseteq Requests /\ q \notin W /\ W \cap Running = {}
        /\ IsFiniteSet(W) /\ IsFiniteSet((Running \ {q}) \cup W)
    <3>1. W \subseteq Requests /\ q \notin W /\ W \cap Running = {}
      BY <1>1 DEF WaitersOf, Running
    <3>2. (Running \ {q}) \cup W \subseteq Requests
      BY <3>1 DEF Running
    <3> QED
      BY <3>1, <3>2, Constants, FS_Subset
  <2>4. Running' = (Running \ {q}) \cup W
    BY <2>2, <2>3 DEF Running
  <2>5. /\ Reads(memory, value, xuid, first) /\ first \in Upserts /\ first.version = value[first.record]
        /\ first.xuid = (first.record \in xuid)
        /\ \A t \in 1..LastTable : \A i \in Slots(t) : ~Passed(first, t, i)
    BY <1>4, <1>9, FirstUpsert DEF Slots, Reads
  <2> HIDE DEF first, n
  <2>6. /\ first.table \in 1..LastTable /\ first.pos \in Slots(first.table) /\ first.record \in Record
        /\ first.record = memory[first.table][first.pos]
    BY <2>5 DEF Upserts, Reads, Slots
  <2>7. InMemory(first.record) /\ value[first.record] > 0
    BY <2>6, SlotHolds DEF HeldHasVersion
  <2>8. ASSUME NEW p \in Running'
        PROVE  \/ p \in W /\ sent'[p] = first
               \/ p \notin W /\ p \in Running /\ sent'[p] = sent[p]
    <3>1. (p \in Requests /\ p # q) \/ p \in W
      BY <2>4 DEF Running
    <3> HIDE DEF W
    <3> QED
      BY <2>2, <2>3, <2>4, <3>1 DEF Running
  <2>9. TypeOK'
    <3>1. sent' \in [Requests -> Upserts \cup {NoUpsert}]
      BY <2>2, <2>5 DEF TypeOK
    <3>2. \A p \in Running' : sent'[p] \in Upserts
      BY <2>5, <2>8 DEF TypeOK
    <3>3. flush' \in [Requests -> {"none", "waiting", "running", "done", "failed"}]
      BY <2>2 DEF TypeOK
    <3>4. flushInFlight' \in Requests \cup {None} /\ overlapped' \in BOOLEAN /\ herd' \in BOOLEAN
      BY <2>2, <2>3 DEF TypeOK
    <3> QED
      BY <1>1, <1>3, <1>13a, <2>2, <3>1, <3>2, <3>3, <3>4 DEF TypeOK
  \* Two waiters make a herd, and nothing else does.
  <2>10. ~overlapped => (Running \ {q}) \cup W = W
    BY <1>7
  <2>11. ASSUME ~overlapped'
         PROVE  /\ ~overlapped /\ \A v, w \in W : v = w
                /\ \A w \in Requests : flush'[w] # "waiting"
                /\ Running' = W
    <3>1. ~overlapped /\ ~(Cardinality(W) > 1)
      BY <2>2, <2>10, <2>11
    <3>2. ASSUME NEW v \in W, NEW w \in W, v # w
          PROVE  FALSE
      <4>1. {v} \subseteq W /\ IsFiniteSet({v}) /\ Cardinality({v}) = 1
        BY FS_Singleton
      <4>2. Cardinality({v}) <= Cardinality(W) /\ Cardinality({v}) # Cardinality(W)
        BY <2>3, <3>2, <4>1, FS_Subset
      <4> QED
        BY <2>3, <3>1, <4>1, <4>2, FS_CardinalityType
    <3> QED
      BY <1>7, <2>2, <2>4, <2>10, <3>1, <3>2
  <2>12. GateHolds'
    <3>1. overlapped' => herd'
      BY <2>2, <2>10 DEF GateHolds
    <3>2. ASSUME ~overlapped' PROVE Alone'
      <4>1. \A w \in Requests : flush'[w] = "running" <=> w \in W
        BY <2>4, <2>11, <3>2 DEF Running
      <4>2. \A w \in Requests : flushInFlight' = w <=> w \in W
        BY <2>2, <2>3, <2>11, <3>2, Constants DEF Record
      <4> QED
        BY <2>11, <3>2, <4>1, <4>2 DEF Alone
    <3> QED
      BY <3>1, <3>2 DEF GateHolds
  <2>13. Progress'
    <3> SUFFICES ASSUME ~overlapped', NEW p \in Running'
                 PROVE  /\ sent'[p].pos \in Slots(sent'[p].table)
                        /\ sent'[p].record = memory[sent'[p].table][sent'[p].pos]
                        /\ sent'[p].version >= due[sent'[p].record]
                        /\ \A t \in 1..LastTable : \A i \in Slots(t) : ~Passed(sent'[p], t, i)
      BY <1>1 DEF Progress, Slots, Durable
    <3>1. sent'[p] = first
      BY <2>8, <2>11
    <3>2. first.version >= due[first.record]
      BY <1>3, <2>5, <2>6 DEF DueIsPast
    <3> QED
      BY <2>5, <2>6, <3>1, <3>2
  <2>14. Settled'
    <3> SUFFICES ASSUME ~overlapped', Quiet', NEW t \in 1..LastTable, NEW i \in Slots(t)
                 PROVE  stored'[memory[t][i]] >= due[memory[t][i]]
      BY <1>1 DEF Settled, Slots, Durable
    <3>1. W = {}
      BY <2>3, <2>4, <2>11 DEF Quiet, Running
    <3>2. ~overlapped /\ NoWaiters
      BY <1>7, <2>11, <3>1 DEF NoWaiters
    <3> QED
      BY <1>8, <1>10, <1>11, <1>15, <3>2 DEF n
  <2>15. UntouchedIsNowhere'
    <3> SUFFICES ASSUME NEW x \in Record, Untouched(x)', NEW p \in Running'
                 PROVE  sent'[p].record # x
      BY <1>1, <1>6 DEF UntouchedIsNowhere
    <3>1. Untouched(x) /\ value[x] = 0 /\ \A r \in Running : sent[r].record # x
      BY <1>6 DEF UntouchedIsNowhere
    <3> QED
      BY <2>7, <2>8, <3>1
  <2>16. MemoryIsNewest'
    <3> SUFFICES ASSUME NEW x \in Record, InMemory(x), NEW p \in Running', sent'[p].record = x
                 PROVE  sent'[p].version <= value[x]
      BY <1>1, <1>12, <1>13 DEF MemoryIsNewest
    <3>1. CASE sent'[p] = first
      BY <1>3, <2>5, <3>1
    <3>2. CASE p \in Running /\ sent'[p] = sent[p]
      BY <1>4, <3>2 DEF MemoryIsNewest
    <3> QED
      BY <2>8, <3>1, <3>2
  <2>17. SentIsNewer'
    <3> SUFFICES ASSUME ~overlapped', NEW p \in Running'
                 PROVE  stored'[sent'[p].record] <= sent'[p].version
      BY DEF SentIsNewer
    <3>1. sent'[p] = first
      BY <2>8, <2>11
    <3> QED
      BY <1>13, <2>5, <2>6, <2>7, <3>1
  <2>18. FlushIsForAnswer'
    BY <1>1, <1>4, <2>2 DEF FlushIsForAnswer, WaitersOf
  <2>19. XuidsFollow'
    <3> SUFFICES ASSUME NEW x \in xuid, NEW p \in Running', sent'[p].record = x
                 PROVE  sent'[p].xuid
      BY <1>1, <1>13b DEF XuidsFollow
    <3> QED
      BY <1>13b, <2>5, <2>8
  <2> QED
    BY <1>5, <2>9, <2>12, <2>13, <2>14, <2>15, <2>16, <2>17, <2>18, <2>19
<1> QED
  BY <1>14, <1>15

\* An upsert is refused, and the flush ends with those that waited for it.
LEMMA RefuseStep ==
  ASSUME IInv, NEW q \in Requests, Refuse(q)
  PROVE  IInv'
<1> USE DEF IInv
<1> DEFINE u == sent[q]
           W == WaitersOf(q)
<1>1. /\ flush[q] = "running" /\ q \in Running
      /\ UNCHANGED <<mode, memory, value, xuid, stored, storedXuid, file, fileXuid, request, row,
                     on, crashes, due>>
      /\ flush' = [w \in Requests |-> IF w \in W \cup {q} THEN "failed" ELSE flush[w]]
      /\ sent' = [sent EXCEPT ![q] = NoUpsert] /\ flushInFlight' = None
      /\ UNCHANGED <<overlapped, herd>>
      /\ refusedAt' = IF W # {} THEN 1 ELSE IF u.table < refusedAt THEN u.table ELSE refusedAt
  BY DEF Refuse, FailFlush, Running, store, postgres, disk, progress
<1>2. outages' \in 0..MaxOutage
  BY Constants DEF Refuse, TypeOK
<1>3. u \in Upserts /\ u.table \in 1..LastTable
  BY <1>1 DEF TypeOK, Upserts
<1>4. /\ Running' \subseteq Running /\ q \notin Running'
      /\ \A p \in Running' : p \in Requests /\ sent'[p] = sent[p]
  BY <1>1 DEF Running, WaitersOf, TypeOK
<1>5. TypeOK'
  <2>1. sent' \in [Requests -> Upserts \cup {NoUpsert}] /\ \A p \in Running' : sent'[p] \in Upserts
    BY <1>1, <1>4 DEF TypeOK
  <2>2. flush' \in [Requests -> {"none", "waiting", "running", "done", "failed"}]
    BY <1>1 DEF TypeOK
  <2>3. refusedAt' \in 1..(LastTable + 1)
    BY <1>1, <1>3, Constants DEF TypeOK
  <2> QED
    BY <1>1, <1>2, <2>1, <2>2, <2>3 DEF TypeOK
<1>6. ASSUME ~overlapped
      PROVE  /\ Running = {q} /\ Running' = {}
             /\ \A w \in Requests : flush[w] = "waiting" <=> w \in W
             /\ \A w \in Requests : flush'[w] \notin {"waiting", "running"}
  <2>1. Running = {q} /\ \A w \in Requests : flush[w] = "waiting" <=> w \in W
    BY <1>1, <1>6 DEF GateHolds, Alone, Running, WaitersOf
  <2> QED
    BY <1>1, <1>4, <2>1 DEF Running
<1>7. GateHolds'
  BY <1>1, <1>6, Constants DEF GateHolds, Alone, Record
<1>8. Progress' /\ SentIsNewer'
  BY <1>1, <1>6 DEF Progress, SentIsNewer
<1>9. Settled'
  <2> SUFFICES ASSUME ~overlapped, NEW t \in 1..LastTable, NEW i \in Slots(t), t < refusedAt'
               PROVE  Durable(t, i)
    BY <1>1 DEF Settled, Slots, Durable
  <2>1. W = {} /\ t < u.table
    <3> HIDE DEF u, W
    <3>0. t \in 1..LastTable /\ u.table \in 1..LastTable /\ refusedAt \in 1..(LastTable + 1)
          /\ LastTable \in Nat
      BY <1>3, Constants DEF TypeOK
    <3>1. ~(t < 1) /\ t \in Nat /\ u.table \in Nat /\ refusedAt \in Nat
      BY ONLY <3>0
    <3> QED
      BY <1>1, <3>1
  <2>2. NoWaiters
    BY <1>6, <2>1 DEF NoWaiters
  <2> QED
    BY <1>1, <2>1, <2>2 DEF Progress, Passed, Before
<1>10. UntouchedIsNowhere' /\ MemoryIsNewest'
  BY <1>1, <1>4 DEF UntouchedIsNowhere, Untouched, MemoryIsNewest, InMemory
<1>11. /\ HeldHasVersion' /\ DueIsPast' /\ UsersAreDistinct' /\ CheckedIsNew' /\ UserRemains'
       /\ AwaitingHasRow'
  BY <1>1 DEF HeldHasVersion, DueIsPast, UsersAreDistinct, CheckedIsNew, UserRemains,
              AwaitingHasRow, Slots, HasUser
<1>12. FlushIsForAnswer' /\ XuidsFollow'
  BY <1>1, <1>4 DEF FlushIsForAnswer, WaitersOf, XuidsFollow
<1> QED
  BY <1>5, <1>7, <1>8, <1>9, <1>10, <1>11, <1>12

\* After a crash memory is what was found, and nothing is under way.
LEMMA CrashStep ==
  ASSUME IInv, NEW torn \in BOOLEAN, Crash(torn)
  PROVE  /\ IInv'
         /\ \A x \in Record : stored'[x] >= stored[x]
<1> USE DEF IInv
<1> DEFINE found == Found(torn)
           have == IF \E x \in Record : Table(x) = 1 /\ found[x] > 0 THEN found ELSE Seeded
           named == {x \in FoundXuid(torn) : have[x] > 0}
<1>1. /\ torn => mode = "memory"
      /\ memory' = [t \in 1..LastTable |-> Holding(have, t)] /\ value' = have /\ due' = have
      /\ xuid' = named
      /\ IF mode = "memory"
         THEN file' = have /\ fileXuid' = named /\ UNCHANGED <<stored, storedXuid>>
         ELSE stored' = have /\ storedXuid' = named /\ UNCHANGED <<file, fileXuid>>
      /\ request' = [q \in Requests |-> IF request[q] \in Awaiting THEN "lost" ELSE request[q]]
      /\ flush' = [q \in Requests |-> IF flush[q] \in {"waiting", "running"} THEN "failed" ELSE flush[q]]
      /\ sent' = [q \in Requests |-> NoUpsert]
      /\ flushInFlight' = None /\ overlapped' = FALSE /\ herd' = FALSE
      /\ refusedAt' = LastTable + 1
      /\ crashes < MaxCrash /\ crashes' = crashes + 1
      /\ UNCHANGED <<mode, row, on, outages>>
  BY DEF Crash, Loaded, postgres, disk
<1>2. Seeded \in [Record -> 0..MaxVersion] /\ HasUser(Seeded)
  <2>1. PICK x \in Seeds : TableOf[x] = 1
    BY FlushAssumption
  <2>2. x \in Record /\ Table(x) = 1 /\ Seeded[x] = 1
    BY <2>1, FlushAssumption, Constants DEF Seeded
  <2>3. Seeded \in [Record -> 0..MaxVersion]
    BY Constants DEF Seeded
  <2> QED
    BY <2>2, <2>3 DEF HasUser
<1>3. found \in [Record -> 0..MaxVersion] /\ (~torn => HasUser(found))
  BY <1>1, <1>2 DEF Found, UserRemains, TypeOK
<1>4. have \in [Record -> 0..MaxVersion] /\ HasUser(have) /\ (have = found \/ have = Seeded)
      /\ (~torn => have = found)
  BY <1>2, <1>3 DEF HasUser
<1>4a. mode \in {"prisma", "memory"} /\ named \subseteq Record
  BY DEF TypeOK, FoundXuid
<1>5. ASSUME NEW x \in Record, Untouched(x)'
      PROVE  Untouched(x) /\ have[x] = 0 /\ file'[x] = 0 /\ stored'[x] = 0
  <2>0. \A q \in Requests :
          /\ request'[q] \in {"none", "checked"} => request[q] \in {"none", "checked"}
          /\ request'[q] \in {"none", "checked", "hashing"} => request[q] \in {"none", "checked", "hashing"}
    BY <1>1 DEF Awaiting
  <2>1. Untouched(x)
    <3>1. CASE x \in Rows
      BY <1>1, <1>5, <2>0, <3>1 DEF Untouched
    <3>2. CASE x \notin Rows
      BY <1>5, <2>0, <3>2 DEF Untouched, Record
    <3> QED
      BY <3>1, <3>2
  <2>2. Seeded[x] = 0
    BY <2>1, FlushAssumption DEF Untouched, Seeded, Record
  <2>3. found[x] = 0
    BY <2>1, <2>2 DEF Found, UntouchedIsNowhere
  <2> QED
    BY <1>1, <1>4, <2>1, <2>2, <2>3 DEF UntouchedIsNowhere
<1>4b. mode = "prisma" => found = stored
  BY DEF Found
<1> HIDE DEF have, found, named
<1>6. \A t \in 1..LastTable :
        /\ memory'[t] = Holding(have, t)
        /\ memory'[t] \in Seq(Record) /\ memory'[t] \in Seq({x \in Record : Table(x) = t})
        /\ \A x \in Record : Table(x) = t /\ have[x] > 0 => x \in ToSet(memory'[t])
  <2>1. \A t \in 1..LastTable : memory'[t] = Holding(have, t)
    BY <1>1
  <2>2. have \in [Record -> 0..MaxVersion]
    BY <1>4
  <2>3. \A t \in 1..LastTable :
          /\ Holding(have, t) \in Seq(Record) /\ Holding(have, t) \in Seq({x \in Record : Table(x) = t})
          /\ \A x \in Record : Table(x) = t /\ have[x] > 0 => x \in ToSet(Holding(have, t))
    BY ONLY <2>2, LoadedHolds
  <2> QED
    BY ONLY <2>1, <2>3
<1>7. Rested'
  <2>1. Running' = {}
    BY <1>1 DEF Running
  <2>2. TypeOK'
    <3>1. memory' \in [1..LastTable -> Seq(Record)]
      BY <1>1, <1>6
    <3>2. crashes' \in 0..MaxCrash /\ refusedAt' \in 1..(LastTable + 1)
      BY <1>1, Constants DEF TypeOK
    <3>3. /\ request' \in [Requests -> {"none", "answered", "lost"} \cup Awaiting]
          /\ flush' \in [Requests -> {"none", "waiting", "running", "done", "failed"}]
          /\ sent' \in [Requests -> Upserts \cup {NoUpsert}]
      BY <1>1 DEF TypeOK
    <3>4. /\ value' \in [Record -> 0..MaxVersion] /\ stored' \in [Record -> 0..MaxVersion]
          /\ file' \in [Record -> 0..MaxVersion] /\ due' \in [Record -> 0..MaxVersion]
          /\ xuid' \subseteq Record /\ storedXuid' \subseteq Record /\ fileXuid' \subseteq Record
      BY <1>1, <1>4, <1>4a DEF TypeOK
    <3> QED
      BY <1>1, <1>6, <2>1, <3>1, <3>2, <3>3, <3>4 DEF TypeOK
  <2>3. UntouchedIsNowhere'
    BY <1>1, <1>5, <2>1 DEF UntouchedIsNowhere
  <2>4. \A q \in Requests :
          /\ request'[q] \notin Awaiting /\ flush'[q] \notin {"waiting", "running"}
          /\ flush'[q] # "none" => request'[q] = "answered" /\ mode' = "prisma"
    BY <1>1 DEF FlushIsForAnswer, Awaiting
  <2>5. HasUser(value')
    BY <1>1, <1>4
  <2> QED
    BY <1>1, <2>2, <2>3, <2>4, <2>5 DEF Rested, HasUser
<1>8. Rested' => IInv'
  BY RestedIsSafe, PTL
<1>9. ASSUME NEW x \in Record PROVE stored'[x] >= stored[x]
  <2>1. stored[x] \in 0..MaxVersion /\ MaxVersion \in Nat
    BY Constants DEF TypeOK
  <2>2. mode = "prisma" => have = stored
    BY <1>1, <1>4, <1>4b
  <2> QED
    BY <1>1, <1>4a, <2>1, <2>2
<1> QED
  BY <1>7, <1>8, <1>9

-----------------------------------------------------------------------------
(* Steps of requests, of the agents and of the timer *)

\* The audit log is not the table of the users.
LEMMA LogIsNotFirst == LastTable # 1 /\ 1 \in 1..LastTable /\ LastTable \in 1..LastTable
<1>1. PICK x \in Rows : TableOf[x] = 1
  BY FlushAssumption
<1>2. 1 < LastTable /\ LastTable \in Nat
  BY <1>1, Constants
<1> QED
  BY <1>2

\* A table after an append.
LEMMA Appended ==
  ASSUME NEW S, NEW s \in Seq(S), NEW y \in S
  PROVE  /\ Append(s, y) \in Seq(S) /\ Len(Append(s, y)) = Len(s) + 1 /\ Len(s) \in Nat
         /\ \A i \in 1..Len(s) : Append(s, y)[i] = s[i]
         /\ Append(s, y)[Len(s) + 1] = y
BY AppendProperties, LenProperties

\* What a step that extends the tables does with one of them.
LEMMA ExtendedTable ==
  ASSUME IInv, Extends, NEW t \in 1..LastTable
  PROVE  /\ memory'[t] \in Seq(Record) /\ memory'[t] \in Seq({x \in Record : Table(x) = t})
         /\ Slots(t) \subseteq Slots(t)'
         /\ \A i \in Slots(t) : memory'[t][i] = memory[t][i]
         /\ \A i \in Slots(t)' : i \notin Slots(t) =>
              /\ i = Len(memory[t]) + 1
              /\ memory'[t][i] \in Record /\ Table(memory'[t][i]) = t
              /\ Untouched(memory'[t][i]) /\ value'[memory'[t][i]] > 0
<1>1. memory[t] \in Seq(Record) /\ memory[t] \in Seq({x \in Record : Table(x) = t})
  BY DEF IInv, TypeOK
<1>2. CASE memory'[t] = memory[t]
  BY <1>1, <1>2 DEF Slots
<1>3. ASSUME NEW y \in Record, Table(y) = t, Untouched(y), value'[y] > 0,
             memory'[t] = Append(memory[t], y)
      PROVE  /\ memory'[t] \in Seq(Record) /\ memory'[t] \in Seq({x \in Record : Table(x) = t})
             /\ Slots(t) \subseteq Slots(t)'
             /\ \A i \in Slots(t) : memory'[t][i] = memory[t][i]
             /\ \A i \in Slots(t)' : i \notin Slots(t) =>
                  /\ i = Len(memory[t]) + 1
                  /\ memory'[t][i] \in Record /\ Table(memory'[t][i]) = t
                  /\ Untouched(memory'[t][i]) /\ value'[memory'[t][i]] > 0
  <2>1. /\ memory'[t] \in Seq(Record) /\ Len(memory'[t]) = Len(memory[t]) + 1
        /\ Len(memory[t]) \in Nat
        /\ \A i \in 1..Len(memory[t]) : memory'[t][i] = memory[t][i]
        /\ memory'[t][Len(memory[t]) + 1] = y
    BY <1>1, <1>3, Appended
  <2>2. memory'[t] \in Seq({x \in Record : Table(x) = t})
    BY <1>1, <1>3, Appended
  <2>3. \A i \in Slots(t)' : i \notin Slots(t) => i = Len(memory[t]) + 1
    BY <2>1 DEF Slots
  <2>4. Slots(t) \subseteq Slots(t)' /\ \A i \in Slots(t) : memory'[t][i] = memory[t][i]
    BY <2>1 DEF Slots
  <2>5. \A i \in Slots(t)' : i \notin Slots(t) => memory'[t][i] = y
    BY <2>1, <2>3
  <2> QED
    BY <1>3, <2>1, <2>2, <2>3, <2>4, <2>5
<1>4. CASE memory'[t] # memory[t]
  <2>1. PICK y \in Record : Table(y) = t /\ Untouched(y) /\ value'[y] > 0
                             /\ memory'[t] = Append(memory[t], y)
    BY <1>4 DEF Extends
  <2> QED
    BY <1>3, <2>1
<1> QED
  BY <1>2, <1>4

\* Such a step holds on to what is in memory, and appends what was not.
LEMMA ExtendsStep ==
  ASSUME IInv, Extends, value' \in [Record -> 0..MaxVersion],
         \A x \in Record : value'[x] >= value[x]
  PROVE  /\ memory' \in [1..LastTable -> Seq(Record)]
         /\ \A t \in 1..LastTable : memory'[t] \in Seq({x \in Record : Table(x) = t})
         /\ Grows /\ HeldHasVersion' /\ UsersAreDistinct' /\ memory'[1] # <<>>
         /\ \A x \in Record : InMemory(x)' => Untouched(x) \/ (InMemory(x) /\ value'[x] >= value[x])
<1> USE DEF IInv
<1>1. /\ memory' \in [1..LastTable -> Seq(Record)]
      /\ \A t \in 1..LastTable : memory'[t] \in Seq({x \in Record : Table(x) = t})
  <2>1. memory' = [t \in 1..LastTable |-> memory'[t]]
    BY DEF Extends
  <2> QED
    BY <2>1, ExtendedTable
<1>2. Grows
  BY ExtendedTable DEF Grows
<1>3. HeldHasVersion'
  <2> SUFFICES ASSUME NEW t \in 1..LastTable, NEW i \in Slots(t)'
               PROVE  value'[memory'[t][i]] > 0
    BY DEF HeldHasVersion
  <2>1. CASE i \in Slots(t)
    <3>1. memory'[t][i] = memory[t][i] /\ memory[t][i] \in Record /\ value[memory[t][i]] > 0
      BY <2>1, SlotHolds, ExtendedTable DEF HeldHasVersion
    <3>2. value[memory[t][i]] \in Nat /\ value'[memory[t][i]] \in Nat
      BY <3>1 DEF TypeOK
    <3> QED
      BY <3>1, <3>2
  <2>2. CASE i \notin Slots(t)
    BY <2>2, ExtendedTable
  <2> QED
    BY <2>1, <2>2
<1>4. UsersAreDistinct'
  <2>0. 1 \in 1..LastTable
    BY LogIsNotFirst
  <2> SUFFICES ASSUME NEW i \in Slots(1)', NEW j \in Slots(1)', memory'[1][i] = memory'[1][j]
               PROVE  i = j
    BY DEF UsersAreDistinct
  <2>1. \A k \in Slots(1) : memory'[1][k] = memory[1][k] /\ ~Untouched(memory[1][k])
    <3> TAKE k \in Slots(1)
    <3>1. memory[1][k] \in Record /\ InMemory(memory[1][k])
      BY <2>0, SlotHolds
    <3>2. ~Untouched(memory[1][k])
      BY <3>1, UntouchedIsNotHeld
    <3> QED
      BY <2>0, <3>2, ExtendedTable
  <2>2. \A k \in Slots(1)' : k \notin Slots(1) =>
          k = Len(memory[1]) + 1 /\ Untouched(memory'[1][k])
    BY <2>0, ExtendedTable
  <2> QED
    BY <2>1, <2>2 DEF UsersAreDistinct
<1>5. memory'[1] # <<>>
  <2>0. 1 \in 1..LastTable
    BY LogIsNotFirst
  <2>1. 1 \in Slots(1)
    BY <2>0, SlotTypes DEF TypeOK, UserRemains, Slots
  <2>2. 1 \in Slots(1)'
    BY <2>0, <2>1, ExtendedTable
  <2> QED
    BY <1>1, <2>0, <2>2, SlotTypes DEF Slots
<1>6. ASSUME NEW x \in Record, InMemory(x)'
      PROVE  Untouched(x) \/ InMemory(x)
  <2>1. Table(x) \in 1..LastTable
    BY Constants
  <2>2. DOMAIN memory'[Table(x)] = Slots(Table(x))'
    BY <1>1, <2>1, LenProperties DEF Slots
  <2>3. PICK i \in Slots(Table(x))' : memory'[Table(x)][i] = x
    BY <1>6, <2>2 DEF InMemory, ToSet
  <2>4. CASE i \in Slots(Table(x))
    BY <2>1, <2>3, <2>4, SlotHolds, ExtendedTable
  <2>5. CASE i \notin Slots(Table(x))
    BY <2>1, <2>3, <2>5, ExtendedTable
  <2> QED
    BY <2>4, <2>5
<1> QED
  BY <1>1, <1>2, <1>3, <1>4, <1>5, <1>6

\* A request that moves on: it arrives with a new row or one there is, or gets the answer
\* it awaited.  Whatever it touches is touched afterwards.
LEMMA MovesStep ==
  ASSUME IInv, NEW q \in Requests, NEW s \in {"answered"} \cup Awaiting, NEW x \in Rows \cup {None},
         request' = [request EXCEPT ![q] = s], row' = [row EXCEPT ![q] = x],
         \/ request[q] = "none" /\ x \in Rows /\ (Fresh(x) \/ ~Untouched(x))
         \/ request[q] \in Awaiting /\ s = "answered" /\ x = row[q],
         s = "checked" => Fresh(x) /\ Table(x) = 1,
         \A z \in Record : \/ value'[z] = value[z]
                           \/ z = q /\ s \in {"answered", "alerting"}
                           \/ z = x /\ x \in Rows /\ s # "checked"
  PROVE  /\ request' \in [Requests -> {"none", "answered", "lost"} \cup Awaiting]
         /\ row' \in [Requests -> Rows \cup {None}]
         /\ CheckedIsNew' /\ AwaitingHasRow'
         /\ \A z \in Record : Untouched(z)' => Untouched(z) /\ value'[z] = value[z]
<1> USE DEF IInv
<1>1. /\ request'[q] = s /\ row'[q] = x
      /\ \A p \in Requests \ {q} : request'[p] = request[p] /\ row'[p] = row[p]
  BY DEF TypeOK
<1>2. /\ request' \in [Requests -> {"none", "answered", "lost"} \cup Awaiting]
      /\ row' \in [Requests -> Rows \cup {None}]
  BY DEF TypeOK
<1>3. AwaitingHasRow'
  BY <1>1 DEF AwaitingHasRow, Awaiting
<1>4. ASSUME NEW r \in Requests, request'[r] = "checked"
      PROVE  /\ row'[r] \in Rows \ Seeds /\ Table(row'[r]) = 1
             /\ \A p \in Requests : row'[p] = row'[r] => p = r
  <2>1. CASE r = q
    <3>1. s = "checked" /\ x \in Rows /\ Fresh(x) /\ Table(x) = 1
      BY <1>1, <1>4, <2>1
    <3> QED
      BY <1>1, <2>1, <3>1 DEF Fresh
  <2>2. CASE r # q
    <3>1. request[r] = "checked" /\ row'[r] = row[r]
      BY <1>1, <1>4, <2>2
    <3>2. /\ row[r] \in Rows \ Seeds /\ Table(row[r]) = 1
          /\ \A p \in Requests : row[p] = row[r] => p = r
      BY <3>1 DEF CheckedIsNew
    <3>3. Untouched(row[r])
      BY <3>1, <3>2 DEF Untouched
    <3>4. x # row[r]
      BY <2>2, <3>2, <3>3 DEF Fresh
    <3> QED
      BY <1>1, <3>1, <3>2, <3>4
  <2> QED
    BY <2>1, <2>2
<1>5. CheckedIsNew'
  BY <1>4 DEF CheckedIsNew
<1>6. ASSUME NEW z \in Record, Untouched(z)'
      PROVE  Untouched(z) /\ value'[z] = value[z]
  <2>1. request[q] = "none" \/ s = "answered"
    OBVIOUS
  <2>2. CASE z \in Rows
    <3>1. z \notin Seeds /\ \A p \in Requests : row'[p] = z => request'[p] \in {"none", "checked"}
      BY <1>6, <2>2 DEF Untouched
    <3>2. x = z => s = "checked"
      BY <1>1, <3>1 DEF Awaiting
    <3>3. ASSUME NEW p \in Requests, row[p] = z
          PROVE  request[p] \in {"none", "checked"}
      BY <1>1, <3>1, <3>2, <3>3
    <3>4. z # q
      BY <2>2, Constants
    <3> QED
      BY <2>2, <3>1, <3>2, <3>3, <3>4 DEF Untouched
  <2>3. CASE z \notin Rows
    <3>1. z \in Requests /\ request'[z] \in {"none", "checked", "hashing"}
      BY <1>6, <2>3 DEF Untouched, Record
    <3>2. request[z] \in {"none", "checked", "hashing"}
      BY <1>1, <2>1, <3>1
    <3>3. z = q => s \in {"checked", "hashing"}
      BY <1>1, <3>1 DEF Awaiting
    <3> QED
      BY <2>3, <3>2, <3>3 DEF Untouched
  <2> QED
    BY <2>2, <2>3
<1> QED
  BY <1>2, <1>3, <1>5, <1>6

\* What a push of a new row with its audit entry does: both are new, and nothing else
\* changes.
LEMMA PushedExtends ==
  ASSUME IInv, NEW q \in Requests, NEW x \in Rows, Untouched(q), Untouched(x), Pushed(q, x)
  PROVE  /\ Extends /\ value' \in [Record -> 0..MaxVersion] /\ memory'[LastTable] # <<>>
         /\ \A z \in Record : value'[z] >= value[z] /\ (value'[z] = value[z] \/ z = q \/ z = x)
<1> USE DEF IInv
<1>1. /\ q \in Record /\ x \in Record /\ Table(q) = LastTable /\ Table(x) = TableOf[x]
      /\ TableOf[x] \in 1..LastTable /\ TableOf[x] # LastTable /\ LastTable \in 1..LastTable
      /\ x # q /\ MaxVersion \in Nat \ {0}
  <2>1. \A t \in 1..LastTable : t < LastTable => t # LastTable
    BY Constants
  <2>2. Table(x) \in 1..LastTable /\ Table(x) < LastTable
    BY Constants
  <2> QED
    BY <2>1, <2>2, Constants, LogIsNotFirst
<1>2. /\ memory' = [t \in 1..LastTable |-> memory'[t]]
      /\ memory'[LastTable] = Append(memory[LastTable], q)
      /\ memory'[TableOf[x]] = Append(memory[TableOf[x]], x)
      /\ \A t \in 1..LastTable \ {LastTable, TableOf[x]} : memory'[t] = memory[t]
  <2>1. memory \in [1..LastTable -> Seq(Record)]
    BY DEF TypeOK
  <2>2. memory' = [memory EXCEPT ![TableOf[x]] = Append(@, x), ![LastTable] = Append(@, q)]
    BY DEF Pushed
  <2> QED
    BY <1>1, <2>1, <2>2
<1>3. value[q] = 0 /\ value[x] = 0
  BY <1>1 DEF UntouchedIsNowhere
<1>4. /\ value' = [value EXCEPT ![x] = 1, ![q] = 1] /\ value \in [Record -> 0..MaxVersion]
      /\ 1 \in 0..MaxVersion
  BY <1>1 DEF Pushed, TypeOK
<1>5. value' \in [Record -> 0..MaxVersion]
  BY <1>4
<1>6. value'[x] = 1 /\ value'[q] = 1 /\ \A z \in Record \ {q, x} : value'[z] = value[z]
  BY <1>1, <1>4
<1>7. \A z \in Record : value'[z] >= value[z] /\ (value'[z] = value[z] \/ z = q \/ z = x)
  <2>1. \A z \in Record : value[z] \in Nat
    BY <1>4
  <2> QED
    BY <1>3, <1>6, <2>1
<1>8. value'[x] > 0 /\ value'[q] > 0
  BY <1>6
<1>9. Extends
  BY <1>1, <1>2, <1>8 DEF Extends
<1>10. memory'[LastTable] # <<>>
  <2>1. memory[LastTable] \in Seq(Record)
    BY <1>1 DEF TypeOK
  <2> QED
    BY <1>1, <1>2, <2>1, Appended, EmptySeq
<1> QED
  BY <1>5, <1>7, <1>9, <1>10

\* What a change of a row with its audit entry does.
LEMMA LoggedExtends ==
  ASSUME IInv, NEW q \in Requests, NEW x \in Rows, Untouched(q),
         NEW v \in 0..MaxVersion, v >= value[x],
         memory' = [memory EXCEPT ![LastTable] = Append(@, q)],
         value' = [value EXCEPT ![x] = v, ![q] = 1]
  PROVE  /\ Extends /\ value' \in [Record -> 0..MaxVersion] /\ memory'[LastTable] # <<>>
         /\ \A z \in Record : value'[z] >= value[z] /\ (value'[z] = value[z] \/ z = q \/ z = x)
<1> USE DEF IInv
<1>1. /\ q \in Record /\ x \in Record /\ Table(q) = LastTable /\ LastTable \in 1..LastTable
      /\ x # q /\ MaxVersion \in Nat \ {0}
  BY Constants, LogIsNotFirst
<1>2. /\ memory'[LastTable] = Append(memory[LastTable], q)
      /\ \A t \in 1..LastTable \ {LastTable} : memory'[t] = memory[t]
      /\ memory' = [t \in 1..LastTable |-> memory'[t]]
  BY <1>1 DEF TypeOK
<1>3. value[q] = 0
  BY <1>1 DEF UntouchedIsNowhere
<1>4. value \in [Record -> 0..MaxVersion] /\ 1 \in 0..MaxVersion
  BY <1>1 DEF TypeOK
<1>5. value' \in [Record -> 0..MaxVersion]
  BY <1>4
<1>6. value'[x] = v /\ value'[q] = 1 /\ \A z \in Record \ {q, x} : value'[z] = value[z]
  BY <1>1, <1>4
<1>7. \A z \in Record : value'[z] >= value[z] /\ (value'[z] = value[z] \/ z = q \/ z = x)
  <2>1. v \in Nat /\ \A z \in Record : value[z] \in Nat
    BY <1>1, <1>4
  <2>2. value'[x] >= value[x] /\ value'[q] >= value[q]
    BY <1>3, <1>6, <2>1
  <2>3. ASSUME NEW z \in Record \ {q, x}
        PROVE  value'[z] >= value[z] /\ value'[z] = value[z]
    <3>1. value'[z] = value[z] /\ value[z] \in Nat
      BY <1>6, <2>1
    <3> QED
      BY <3>1
  <2> QED
    BY <2>2, <2>3
<1>8. value'[q] > 0
  BY <1>6
<1>9. Extends
  BY <1>1, <1>2, <1>8 DEF Extends
<1>10. memory'[LastTable] # <<>>
  <2>1. memory[LastTable] \in Seq(Record)
    BY <1>1 DEF TypeOK
  <2> QED
    BY <1>1, <1>2, <2>1, Appended, EmptySeq
<1> QED
  BY <1>5, <1>7, <1>9, <1>10

\* A step that leaves memory as it is extends it by nothing.
LEMMA SameExtends == IInv /\ memory' = memory => Extends
BY DEF IInv, TypeOK, Extends

\* What holds an XUID in memory: as before, or a row pushed now.
LEMMA SameNames ==
  ASSUME IInv, xuid' \subseteq xuid
  PROVE  NamesFew
BY DEF IInv, TypeOK, NamesFew

LEMMA PushedNames ==
  ASSUME IInv, NEW q \in Requests, NEW x \in Rows, Untouched(x), Pushed(q, x)
  PROVE  NamesFew
BY Constants DEF IInv, TypeOK, NamesFew, Pushed

\* A request that arrives, with its audit entry still to come.
LEMMA ArrivalIsNew ==
  ASSUME IInv, NEW q \in Requests, request[q] \in {"none", "checked", "hashing"}
  PROVE  Untouched(q) /\ q \in Record
BY Constants DEF Untouched

\* A row of an id that no request has used.
LEMMA FreshIsUntouched ==
  ASSUME NEW x \in Rows, Fresh(x)
  PROVE  Untouched(x)
BY DEF Fresh, Untouched

\* A row in memory.
LEMMA HeldIsTouched ==
  ASSUME IInv, NEW x \in Rows, CanChange(x)
  PROVE  ~Untouched(x) /\ value[x] + 1 \in 0..MaxVersion /\ value[x] + 1 >= value[x]
<1>1. x \in Record /\ MaxVersion \in Nat /\ value[x] \in 0..MaxVersion
  BY Constants DEF IInv, TypeOK
<1>2. ~Untouched(x)
  BY <1>1, UntouchedIsNotHeld DEF CanChange, IInv
<1> QED
  BY <1>1, <1>2 DEF CanChange

\* One version more for one row.
LEMMA RaisedValue ==
  ASSUME IInv, NEW x \in Rows, value[x] + 1 \in 0..MaxVersion,
         value' = [value EXCEPT ![x] = @ + 1]
  PROVE  /\ value' \in [Record -> 0..MaxVersion]
         /\ \A z \in Record : value'[z] >= value[z] /\ (value'[z] = value[z] \/ z = x)
<1>1. value \in [Record -> 0..MaxVersion] /\ x \in Record
  BY Constants DEF IInv, TypeOK
<1>2. \A z \in Record : value[z] \in Nat
  BY <1>1
<1> QED
  BY <1>1, <1>2

\* The address is checked, and the hash of the password awaited.
LEMMA CheckMailStep ==
  ASSUME IInv, NEW q \in Requests, NEW u \in Rows, CheckMail(q, u)
  PROVE  Silent
<1>1. /\ request[q] = "none" /\ Fresh(u) /\ Table(u) = 1
      /\ request' = [request EXCEPT ![q] = "checked"] /\ row' = [row EXCEPT ![q] = u]
      /\ UNCHANGED <<mode, memory, value, flushing, crashes, outages, history>>
      /\ UNCHANGED <<xuid, stored, storedXuid, file, fileXuid>>
  BY Constants DEF CheckMail, Arrives, store, postgres, disk
<1>2. /\ value' \in [Record -> 0..MaxVersion] /\ Extends
      /\ \A x \in Record : value'[x] >= value[x] /\ value'[x] = value[x]
  BY <1>1, SameExtends DEF IInv, TypeOK
<1>3. /\ request' \in [Requests -> {"none", "answered", "lost"} \cup Awaiting]
      /\ row' \in [Requests -> Rows \cup {None}]
      /\ CheckedIsNew' /\ AwaitingHasRow'
      /\ \A z \in Record : Untouched(z)' => Untouched(z) /\ value'[z] = value[z]
  BY <1>1, <1>2, MovesStep DEF Awaiting
<1>4. \A p \in Requests : /\ request[p] = "answered" => request'[p] = "answered"
                          /\ request'[p] = "alerting" => request[p] = "alerting"
  BY <1>1 DEF IInv, TypeOK
<1> QED
  BY <1>1, <1>2, <1>3, <1>4, ExtendsStep, SameNames DEF Silent, Edit, EditTypes

\* The row of an alert is pushed at once, and the answer waits for the alert.
LEMMA CreateActionStep ==
  ASSUME IInv, NEW q \in Requests, NEW x \in Rows, CreateAction(q, x)
  PROVE  Silent
<1>1. /\ request[q] = "none" /\ Fresh(x) /\ Pushed(q, x)
      /\ request' = [request EXCEPT ![q] = "alerting"] /\ row' = [row EXCEPT ![q] = x]
      /\ UNCHANGED <<mode, stored, storedXuid, file, fileXuid, flushing, crashes, outages, history>>
  BY DEF CreateAction, Arrives, postgres, disk
<1>2. Untouched(q) /\ Untouched(x)
  BY <1>1, ArrivalIsNew, FreshIsUntouched
<1>3. /\ Extends /\ value' \in [Record -> 0..MaxVersion] /\ memory'[LastTable] # <<>>
      /\ \A z \in Record : value'[z] >= value[z] /\ (value'[z] = value[z] \/ z = q \/ z = x)
  BY <1>1, <1>2, PushedExtends
<1>4. /\ request' \in [Requests -> {"none", "answered", "lost"} \cup Awaiting]
      /\ row' \in [Requests -> Rows \cup {None}]
      /\ CheckedIsNew' /\ AwaitingHasRow'
      /\ \A z \in Record : Untouched(z)' => Untouched(z) /\ value'[z] = value[z]
  BY <1>1, <1>3, MovesStep DEF Awaiting
<1>5. \A p \in Requests : request[p] = "answered" => request'[p] = "answered"
  BY <1>1 DEF IInv, TypeOK
<1> QED
  BY <1>1, <1>2, <1>3, <1>4, <1>5, ExtendsStep, PushedNames DEF Silent, Edit, EditTypes

\* The other fields of a user change, and the hash of the password is awaited.
LEMMA ChangePasswordStep ==
  ASSUME IInv, NEW q \in Requests, NEW u \in Rows, ChangePassword(q, u)
  PROVE  Silent
<1>1. /\ request[q] = "none" /\ CanChange(u) /\ value' = [value EXCEPT ![u] = @ + 1]
      /\ request' = [request EXCEPT ![q] = "hashing"] /\ row' = [row EXCEPT ![q] = u]
      /\ UNCHANGED <<mode, memory, flushing, crashes, outages, history>>
      /\ UNCHANGED <<xuid, stored, storedXuid, file, fileXuid>>
  BY DEF ChangePassword, Arrives, postgres, disk
<1>2. ~Untouched(u) /\ value[u] + 1 \in 0..MaxVersion /\ value[u] + 1 >= value[u]
  BY <1>1, HeldIsTouched
<1>3. /\ value' \in [Record -> 0..MaxVersion]
      /\ \A z \in Record : value'[z] >= value[z] /\ (value'[z] = value[z] \/ z = u)
  BY <1>1, <1>2, RaisedValue
<1>0. "hashing" \in {"answered"} \cup Awaiting /\ "hashing" # "checked" /\ u \in Rows \cup {None}
  BY DEF Awaiting
<1>4. /\ request' \in [Requests -> {"none", "answered", "lost"} \cup Awaiting]
      /\ row' \in [Requests -> Rows \cup {None}]
      /\ CheckedIsNew' /\ AwaitingHasRow'
      /\ \A z \in Record : Untouched(z)' => Untouched(z) /\ value'[z] = value[z]
  BY <1>0, <1>1, <1>2, <1>3, MovesStep
<1>5. \A p \in Requests : /\ request[p] = "answered" => request'[p] = "answered"
                          /\ request'[p] = "alerting" => request[p] = "alerting"
  BY <1>1 DEF IInv, TypeOK
<1> QED
  BY <1>1, <1>3, <1>4, <1>5, SameExtends, ExtendsStep, SameNames DEF Silent, Edit, EditTypes

\* Heartbeats, crash reports and sweeps change a row without a request.
LEMMA ChangeUnflushedStep ==
  ASSUME IInv, NEW x \in Rows, ChangeUnflushed(x)
  PROVE  Silent
<1>1. /\ CanChange(x) /\ value' = [value EXCEPT ![x] = @ + 1]
      /\ UNCHANGED <<mode, memory, request, row, flushing, crashes, outages, history>>
      /\ UNCHANGED <<xuid, stored, storedXuid, file, fileXuid>>
  BY DEF ChangeUnflushed, progress, postgres, disk
<1>2. ~Untouched(x) /\ value[x] + 1 \in 0..MaxVersion /\ value[x] + 1 >= value[x]
  BY <1>1, HeldIsTouched
<1>3. /\ value' \in [Record -> 0..MaxVersion]
      /\ \A z \in Record : value'[z] >= value[z] /\ (value'[z] = value[z] \/ z = x)
  BY <1>1, <1>2, RaisedValue
<1>4. \A z \in Record : Untouched(z)' => Untouched(z) /\ value'[z] = value[z]
  BY <1>1, <1>2, <1>3 DEF Untouched
<1>5. CheckedIsNew' /\ AwaitingHasRow'
  BY <1>1 DEF IInv, CheckedIsNew, AwaitingHasRow
<1> QED
  BY <1>1, <1>3, <1>4, <1>5, SameExtends, ExtendsStep, SameNames DEF Silent, Edit, EditTypes, IInv, TypeOK

\* The JSON file is written.
LEMMA SaveStep ==
  ASSUME IInv, Save
  PROVE  Silent
<1>1. /\ file' = value /\ value' = value /\ fileXuid' = xuid /\ xuid' = xuid
      /\ UNCHANGED <<mode, memory, stored, storedXuid, request, row, flushing, crashes, outages,
                     history>>
  BY DEF Save, store, postgres, progress
<1>2. value' \in [Record -> 0..MaxVersion] /\ \A x \in Record : value'[x] >= value[x]
  BY <1>1 DEF IInv, TypeOK
<1>3. \A z \in Record : Untouched(z)' => Untouched(z) /\ value'[z] = value[z]
  BY <1>1 DEF Untouched
<1>4. CheckedIsNew' /\ AwaitingHasRow'
  BY <1>1 DEF IInv, CheckedIsNew, AwaitingHasRow
<1> QED
  BY <1>1, <1>2, <1>3, <1>4, SameExtends, ExtendsStep, SameNames DEF Silent, Edit, EditTypes, IInv, TypeOK

\* An answer of a request whose step extends the tables: the parts of Answers together.
LEMMA ExtendsAndAnswers ==
  ASSUME IInv, NEW q \in Requests, NEW x \in Rows,
         request[q] \in {"none"} \cup Awaiting, Answer(q), row' = [row EXCEPT ![q] = x],
         \/ request[q] = "none" /\ (Fresh(x) \/ ~Untouched(x))
         \/ request[q] \in Awaiting /\ x = row[q],
         Extends, NamesFew, value' \in [Record -> 0..MaxVersion], memory'[LastTable] # <<>>,
         \A z \in Record : value'[z] >= value[z] /\ (value'[z] = value[z] \/ z = q \/ z = x)
  PROVE  Answers(q)
<1>1. /\ request' = [request EXCEPT ![q] = "answered"]
      /\ UNCHANGED <<mode, stored, storedXuid, file, fileXuid, crashes, outages>>
  BY DEF Answer, postgres, disk
<1>2. "answered" \in {"answered"} \cup Awaiting /\ "answered" # "checked" /\ x \in Rows \cup {None}
  OBVIOUS
<1>3. /\ request' \in [Requests -> {"none", "answered", "lost"} \cup Awaiting]
      /\ row' \in [Requests -> Rows \cup {None}]
      /\ CheckedIsNew' /\ AwaitingHasRow'
      /\ \A z \in Record : Untouched(z)' => Untouched(z) /\ value'[z] = value[z]
  BY <1>1, <1>2, MovesStep
<1> QED
  BY <1>1, <1>3, ExtendsStep DEF Answers, Edit, EditTypes

\* The user is created when the hash is there.
LEMMA CreateUserStep ==
  ASSUME IInv, NEW q \in Requests, CreateUser(q)
  PROVE  Answers(q)
<1>1. request[q] = "checked" /\ Pushed(q, row[q]) /\ Answer(q) /\ row' = row
  BY DEF CreateUser
<1>2. row[q] \in Rows \ Seeds /\ \A p \in Requests : row[p] = row[q] => p = q
  BY <1>1 DEF IInv, CheckedIsNew
<1>3. Untouched(q) /\ Untouched(row[q]) /\ row[q] \in Rows
  BY <1>1, <1>2, ArrivalIsNew DEF Untouched
<1>4. row' = [row EXCEPT ![q] = row[q]]
  BY <1>1 DEF IInv, TypeOK
<1>5. /\ Extends /\ value' \in [Record -> 0..MaxVersion] /\ memory'[LastTable] # <<>>
      /\ \A z \in Record : value'[z] >= value[z] /\ (value'[z] = value[z] \/ z = q \/ z = row[q])
  BY <1>1, <1>3, PushedExtends
<1>6. request[q] \in Awaiting
  BY <1>1 DEF Awaiting
<1> QED
  BY <1>1, <1>3, <1>4, <1>5, <1>6, PushedNames, ExtendsAndAnswers

\* A row is pushed and answered for in one step.
LEMMA InsertStep ==
  ASSUME IInv, NEW q \in Requests, NEW x \in Rows, Insert(q, x)
  PROVE  Answers(q)
<1>1. /\ request[q] = "none" /\ Fresh(x) /\ Pushed(q, x) /\ Answer(q)
      /\ row' = [row EXCEPT ![q] = x]
  BY DEF Insert, Arrives
<1>2. Untouched(q) /\ Untouched(x)
  BY <1>1, ArrivalIsNew, FreshIsUntouched
<1> QED
  BY <1>1, <1>2, PushedExtends, PushedNames, ExtendsAndAnswers

\* The alert is sent: memory stays as it is.
LEMMA AlertSentStep ==
  ASSUME IInv, NEW q \in Requests, AlertSent(q)
  PROVE  Answers(q)
<1>1. request[q] = "alerting" /\ UNCHANGED <<memory, value, xuid, row>> /\ Answer(q)
  BY DEF AlertSent, store
<1>2. row[q] \in Rows /\ memory'[LastTable] # <<>>
  BY <1>1 DEF IInv, AwaitingHasRow, FlushIsForAnswer
<1>3. row' = [row EXCEPT ![q] = row[q]]
  BY <1>1 DEF IInv, TypeOK
<1>4. /\ value' \in [Record -> 0..MaxVersion] /\ Extends
      /\ \A z \in Record : value'[z] >= value[z] /\ value'[z] = value[z]
  BY <1>1, SameExtends DEF IInv, TypeOK
<1>5. request[q] \in Awaiting
  BY <1>1 DEF Awaiting
<1> QED
  BY <1>1, <1>2, <1>3, <1>4, <1>5, SameNames, ExtendsAndAnswers

\* A row is changed and answered for in one step.
LEMMA ChangeStep ==
  ASSUME IInv, NEW q \in Requests, NEW x \in Rows, Change(q, x)
  PROVE  Answers(q)
<1>1. /\ request[q] = "none" /\ CanChange(x) /\ Answer(q) /\ row' = [row EXCEPT ![q] = x]
      /\ memory' = [memory EXCEPT ![LastTable] = Append(@, q)] /\ xuid' = xuid
  BY DEF Change, Arrives
<1>2. ~Untouched(x) /\ value[x] + 1 \in 0..MaxVersion /\ value[x] + 1 >= value[x]
  BY <1>1, HeldIsTouched
<1>3. value' = [value EXCEPT ![x] = value[x] + 1, ![q] = 1]
  BY DEF Change
<1>4. Untouched(q)
  BY <1>1, ArrivalIsNew
<1>5. /\ Extends /\ value' \in [Record -> 0..MaxVersion] /\ memory'[LastTable] # <<>>
      /\ \A z \in Record : value'[z] >= value[z] /\ (value'[z] = value[z] \/ z = q \/ z = x)
  BY <1>1, <1>2, <1>3, <1>4, LoggedExtends
<1> QED
  BY <1>1, <1>2, <1>5, SameNames, ExtendsAndAnswers

\* The rows about a player change together, and are answered for in one step.
LEMMA AnonymiseStep ==
  ASSUME IInv, NEW q \in Requests, NEW player \in SUBSET Ledger, Anonymise(q, player)
  PROVE  Answers(q)
<1> USE DEF IInv
<1>1. /\ request[q] = "none" /\ Answer(q) /\ row' = row
      /\ memory' = [memory EXCEPT ![LastTable] = Append(@, q)] /\ xuid' \subseteq xuid
      /\ value' = [x \in Record |-> IF x \in player THEN value[x] + 1
                                   ELSE IF x = q THEN 1 ELSE value[x]]
  BY DEF Anonymise, Arrives
<1>2. /\ request' = [request EXCEPT ![q] = "answered"]
      /\ UNCHANGED <<mode, stored, storedXuid, file, fileXuid, crashes, outages>>
  BY <1>1 DEF Answer, postgres, disk
<1>3. \A x \in player : x \in Rows /\ ~Untouched(x) /\ value[x] + 1 \in 0..MaxVersion
  BY HeldIsTouched, FlushAssumption DEF Anonymise
<1>4. /\ Untouched(q) /\ q \in Record /\ Table(q) = LastTable /\ q \notin player
      /\ LastTable \in 1..LastTable /\ MaxVersion \in Nat \ {0} /\ value[q] = 0
  BY <1>1, <1>3, Constants, LogIsNotFirst, ArrivalIsNew DEF UntouchedIsNowhere
<1>5. /\ value \in [Record -> 0..MaxVersion] /\ value' \in [Record -> 0..MaxVersion]
      /\ \A z \in Record : value'[z] >= value[z]
      /\ \A z \in Record : value'[z] = value[z] \/ z = q \/ z \in player
  <2>1. value \in [Record -> 0..MaxVersion] /\ 1 \in 0..MaxVersion
    BY <1>4 DEF TypeOK
  <2>2. \A z \in Record : value[z] \in Nat
    BY <2>1
  <2> QED
    BY <1>1, <1>3, <1>4, <2>1, <2>2
<1>6. Extends /\ memory'[LastTable] # <<>>
  <2>1. /\ memory'[LastTable] = Append(memory[LastTable], q)
        /\ \A t \in 1..LastTable \ {LastTable} : memory'[t] = memory[t]
        /\ memory' = [t \in 1..LastTable |-> memory'[t]]
    BY <1>1, <1>4 DEF TypeOK
  <2>2. value'[q] > 0
    BY <1>1, <1>4
  <2>3. Extends
    BY <1>4, <2>1, <2>2 DEF Extends
  <2>4. memory[LastTable] \in Seq(Record)
    BY <1>4 DEF TypeOK
  <2> QED
    BY <1>4, <2>1, <2>3, <2>4, Appended, EmptySeq
<1>7. /\ request' \in [Requests -> {"none", "answered", "lost"} \cup Awaiting]
      /\ row' \in [Requests -> Rows \cup {None}]
      /\ CheckedIsNew' /\ AwaitingHasRow'
  BY <1>1, <1>2 DEF TypeOK, CheckedIsNew, AwaitingHasRow
<1>8. ASSUME NEW z \in Record, Untouched(z)' PROVE Untouched(z) /\ value'[z] = value[z]
  <2>1. \A p \in Requests : p # q => request'[p] = request[p]
    BY <1>2 DEF TypeOK
  <2>2. request'[q] = "answered"
    BY <1>2 DEF TypeOK
  <2>3. Untouched(z) /\ z # q
    <3>1. CASE z \in Rows
      BY <1>1, <1>8, <2>1, <3>1, Constants DEF Untouched
    <3>2. CASE z \notin Rows
      BY <1>8, <2>1, <2>2, <3>2 DEF Untouched, Record
    <3> QED
      BY <3>1, <3>2
  <2> QED
    BY <1>3, <1>5, <2>3
<1> QED
  BY <1>1, <1>2, <1>5, <1>6, <1>7, <1>8, ExtendsStep, SameNames DEF Answers, Edit, EditTypes

\* The hash is there: the record it is for may have gone.
LEMMA PasswordChangedStep ==
  ASSUME IInv, NEW q \in Requests, PasswordChanged(q)
  PROVE  Answers(q)
<1> DEFINE x == row[q]
           v == IF InMemory(x) THEN value[x] + 1 ELSE value[x]
<1>1. /\ request[q] = "hashing" /\ (InMemory(x) => CanChange(x)) /\ Answer(q) /\ row' = row
      /\ memory' = [memory EXCEPT ![LastTable] = Append(@, q)] /\ xuid' = xuid
  BY DEF PasswordChanged
<1>2. x \in Rows
  BY <1>1 DEF IInv, AwaitingHasRow
<1>3. v \in 0..MaxVersion /\ v >= value[x]
  <2>1. value[x] \in 0..MaxVersion /\ MaxVersion \in Nat
    BY <1>2, Constants DEF IInv, TypeOK
  <2>2. CASE InMemory(x)
    BY <1>1, <1>2, <2>2, HeldIsTouched
  <2>3. CASE ~InMemory(x)
    BY <2>1, <2>3
  <2> QED
    BY <2>2, <2>3
<1>4. value' = [value EXCEPT ![x] = v, ![q] = 1]
  BY DEF PasswordChanged
<1>5. Untouched(q)
  BY <1>1, ArrivalIsNew
<1> HIDE DEF v
<1>6. /\ Extends /\ value' \in [Record -> 0..MaxVersion] /\ memory'[LastTable] # <<>>
      /\ \A z \in Record : value'[z] >= value[z] /\ (value'[z] = value[z] \/ z = q \/ z = x)
  BY <1>1, <1>2, <1>3, <1>4, <1>5, LoggedExtends
<1>7. row' = [row EXCEPT ![q] = row[q]] /\ request[q] \in Awaiting
  BY <1>1 DEF IInv, TypeOK, Awaiting
<1> QED
  BY <1>1, <1>2, <1>6, <1>7, SameNames, ExtendsAndAnswers

\* A user is spliced out of the array: the others stay, once each, as they were.
LEMMA DeleteUserStep ==
  ASSUME IInv, NEW q \in Requests, NEW u \in Rows, DeleteUser(q, u)
  PROVE  Answers(q)
<1> USE DEF IInv
<1>1. /\ request[q] = "none" /\ Table(u) = 1 /\ Len(memory[1]) > 1 /\ Answer(q)
      /\ row' = [row EXCEPT ![q] = u] /\ value' = [value EXCEPT ![u] = 0, ![q] = 1]
      /\ xuid' = xuid
  BY Constants DEF DeleteUser, Arrives
<1>2. PICK k \in 1..Len(memory[1]) :
        /\ memory[1][k] = u
        /\ memory' = [memory EXCEPT ![1] = RemoveAt(@, k), ![LastTable] = Append(@, q)]
  BY DEF DeleteUser
<1>3. /\ q \in Record /\ u \in Record /\ Table(q) = LastTable /\ q # u
      /\ 1 \in 1..LastTable /\ LastTable \in 1..LastTable /\ LastTable # 1
      /\ MaxVersion \in Nat \ {0}
  BY Constants, LogIsNotFirst
<1>4. /\ memory \in [1..LastTable -> Seq(Record)]
      /\ \A t \in 1..LastTable : memory[t] \in Seq({x \in Record : Table(x) = t})
      /\ value \in [Record -> 0..MaxVersion]
  BY DEF TypeOK
<1>5. /\ memory' = [t \in 1..LastTable |-> memory'[t]]
      /\ memory'[1] = RemoveAt(memory[1], k)
      /\ memory'[LastTable] = Append(memory[LastTable], q)
      /\ \A t \in 1..LastTable \ {1, LastTable} : memory'[t] = memory[t]
  BY <1>2, <1>3, <1>4
<1>6. /\ value' \in [Record -> 0..MaxVersion] /\ value'[u] = 0 /\ value'[q] = 1
      /\ \A z \in Record \ {u, q} : value'[z] = value[z]
  <2>1. 0 \in 0..MaxVersion /\ 1 \in 0..MaxVersion
    BY <1>3
  <2> QED
    BY <1>1, <1>3, <1>4, <2>1
\* Where the users of the spliced array have been.
<1> DEFINE Origin(i) == IF i < k THEN i ELSE i + 1
<1>7. /\ memory'[1] \in Seq({x \in Record : Table(x) = 1}) /\ Len(memory'[1]) = Len(memory[1]) - 1
      /\ \A i \in 1..Len(memory'[1]) : memory'[1][i] = IF i < k THEN memory[1][i] ELSE memory[1][i + 1]
  <2> DEFINE s == memory[1]
             S == {x \in Record : Table(x) = 1}
  <2>1. s \in Seq(S) /\ k \in 1..Len(s) /\ memory'[1] = RemoveAt(s, k)
    BY <1>3, <1>4, <1>5
  <2>2. /\ RemoveAt(s, k) \in Seq(S) /\ Len(RemoveAt(s, k)) = Len(s) - 1
        /\ \A i \in 1..Len(RemoveAt(s, k)) :
             RemoveAt(s, k)[i] = IF i < k THEN s[i] ELSE s[i + 1]
    <3> HIDE DEF s, S
    <3> QED
      BY <2>1, Spliced
  <2> QED
    BY <2>1, <2>2
<1>8. Len(memory[1]) \in Nat /\ k \in Nat
  BY <1>3, <1>4, SlotTypes
<1>9. ASSUME NEW i \in Slots(1)'
      PROVE  /\ Origin(i) \in Slots(1) /\ Origin(i) # k /\ memory'[1][i] = memory[1][Origin(i)]
             /\ i \in Nat
  <2>1. i \in Nat /\ i >= 1 /\ i <= Len(memory[1]) - 1
    BY <1>7, <1>8 DEF Slots
  <2>2. memory'[1][i] = memory[1][Origin(i)]
    BY <1>7 DEF Slots
  <2>3. Origin(i) \in Slots(1) /\ Origin(i) # k
    <3>1. CASE i < k
      BY <1>8, <2>1, <3>1 DEF Slots
    <3>2. CASE ~(i < k)
      BY <1>8, <2>1, <3>2 DEF Slots
    <3> QED
      BY <3>1, <3>2
  <2> QED
    BY <2>1, <2>2, <2>3
<1>10. ASSUME NEW i \in Slots(1)'
       PROVE  /\ memory'[1][i] \in Record /\ Table(memory'[1][i]) = 1 /\ InMemory(memory'[1][i])
              /\ memory'[1][i] # u /\ memory'[1][i] # q
  <2> DEFINE j == Origin(i)
  <2>1. j \in Slots(1) /\ j # k /\ memory'[1][i] = memory[1][j]
    BY <1>9
  <2> HIDE DEF j
  <2>2. memory[1][j] \in Record /\ Table(memory[1][j]) = 1 /\ InMemory(memory[1][j])
    BY <1>3, <2>1, SlotHolds
  <2>3. memory[1][j] # u
    BY <1>2, <2>1 DEF UsersAreDistinct, Slots
  <2> QED
    BY <1>3, <2>1, <2>2, <2>3
<1>11. /\ memory'[LastTable] \in Seq(Record)
       /\ memory'[LastTable] \in Seq({x \in Record : Table(x) = LastTable})
       /\ memory'[LastTable] # <<>>
       /\ \A i \in Slots(LastTable)' :
            memory'[LastTable][i] = q \/ (i \in Slots(LastTable) /\ memory'[LastTable][i] = memory[LastTable][i])
  <2>1. /\ memory[LastTable] \in Seq(Record)
        /\ memory[LastTable] \in Seq({x \in Record : Table(x) = LastTable})
    BY <1>3, <1>4
  <2>2. /\ memory'[LastTable] \in Seq(Record) /\ Len(memory'[LastTable]) = Len(memory[LastTable]) + 1
        /\ Len(memory[LastTable]) \in Nat
        /\ \A i \in 1..Len(memory[LastTable]) : memory'[LastTable][i] = memory[LastTable][i]
        /\ memory'[LastTable][Len(memory[LastTable]) + 1] = q
    BY <1>3, <1>5, <2>1, Appended
  <2>3. memory'[LastTable] \in Seq({x \in Record : Table(x) = LastTable})
    BY <1>3, <1>5, <2>1, Appended
  <2>4. \A i \in Slots(LastTable)' : i \in Slots(LastTable) \/ i = Len(memory[LastTable]) + 1
    BY <2>2 DEF Slots
  <2>5. memory'[LastTable] # <<>>
    BY <2>2, EmptySeq
  <2> QED
    BY <2>2, <2>3, <2>4, <2>5 DEF Slots
<1>12. /\ memory' \in [1..LastTable -> Seq(Record)]
       /\ \A t \in 1..LastTable : memory'[t] \in Seq({x \in Record : Table(x) = t})
  <2>1. memory'[1] \in Seq(Record)
    <3> DEFINE S == {x \in Record : Table(x) = 1}
    <3>1. S \subseteq Record /\ memory'[1] \in Seq(S)
      BY <1>7
    <3> HIDE DEF S
    <3> QED
      BY <3>1
  <2>2. \A t \in 1..LastTable : memory'[t] \in Seq(Record)
    BY <1>4, <1>5, <1>11, <2>1
  <2> QED
    BY <1>4, <1>5, <1>7, <1>11, <2>2
\* What is in memory afterwards was there before, with the version it has, or is q.
<1>13. ASSUME NEW t \in 1..LastTable, NEW i \in Slots(t)'
       PROVE  LET z == memory'[t][i]
              IN z = q \/ (z \in Record /\ z # u /\ z # q /\ InMemory(z) /\ Table(z) = t)
  <2>1. CASE t = 1
    BY <1>10, <2>1
  <2>2. CASE t # 1 /\ memory'[t][i] # q
    <3>1. i \in Slots(t) /\ memory'[t][i] = memory[t][i]
      BY <1>5, <1>11, <2>2 DEF Slots
    <3>2. memory[t][i] \in Record /\ Table(memory[t][i]) = t /\ InMemory(memory[t][i])
      BY <3>1, SlotHolds
    <3> QED
      BY <1>1, <2>2, <3>1, <3>2
  <2> QED
    BY <2>1, <2>2
<1>14. \A z \in Record : z # u /\ z # q /\ InMemory(z) => value'[z] = value[z] /\ value[z] > 0 /\ value[z] \in Nat
  BY <1>4, <1>6, HeldVersion
<1>15. HeldHasVersion'
  BY <1>6, <1>13, <1>14 DEF HeldHasVersion
<1>16. UsersAreDistinct'
  <2> SUFFICES ASSUME NEW i \in Slots(1)', NEW j \in Slots(1)', memory'[1][i] = memory'[1][j]
               PROVE  i = j
    BY DEF UsersAreDistinct
  <2>1. Origin(i) = Origin(j)
    <3>1. /\ Origin(i) \in Slots(1) /\ Origin(j) \in Slots(1)
          /\ memory[1][Origin(i)] = memory[1][Origin(j)]
      BY <1>9
    <3> HIDE DEF Origin
    <3> QED
      BY <3>1 DEF UsersAreDistinct
  <2> QED
    BY <1>8, <1>9, <2>1
<1>17. memory'[1] # <<>>
  BY <1>1, <1>7, <1>8
<1>18. Untouched(q) /\ ~Untouched(u)
  <2>1. InMemory(u)
    BY <1>2, <1>3, SlotHolds DEF Slots
  <2> QED
    BY <1>1, <1>3, <2>1, ArrivalIsNew, UntouchedIsNotHeld
<1>19. ASSUME NEW x \in Record, InMemory(x)'
       PROVE  Untouched(x) \/ (InMemory(x) /\ value'[x] >= value[x])
  <2>1. Table(x) \in 1..LastTable
    BY Constants
  <2>2. DOMAIN memory'[Table(x)] = Slots(Table(x))'
    BY <1>12, <2>1, LenProperties DEF Slots
  <2>3. PICK i \in Slots(Table(x))' : memory'[Table(x)][i] = x
    BY <1>19, <2>2 DEF InMemory, ToSet
  <2>4. x = q \/ (x # u /\ x # q /\ InMemory(x))
    BY <1>13, <2>1, <2>3
  <2> QED
    BY <1>14, <1>18, <2>4
<1>20. /\ request' = [request EXCEPT ![q] = "answered"]
       /\ UNCHANGED <<mode, stored, storedXuid, file, fileXuid, crashes, outages>>
  BY <1>1 DEF Answer, postgres, disk
<1>21. /\ request' \in [Requests -> {"none", "answered", "lost"} \cup Awaiting]
       /\ row' \in [Requests -> Rows \cup {None}]
       /\ CheckedIsNew' /\ AwaitingHasRow'
       /\ \A z \in Record : Untouched(z)' => Untouched(z) /\ value'[z] = value[z]
  <2>1. "answered" \in {"answered"} \cup Awaiting /\ "answered" # "checked" /\ u \in Rows \cup {None}
    OBVIOUS
  <2>2. \A z \in Record : value'[z] = value[z] \/ z = q \/ z = u
    BY <1>6
  <2> QED
    BY <1>1, <1>18, <1>20, <2>1, <2>2, MovesStep
<1> QED
  BY <1>1, <1>6, <1>11, <1>12, <1>15, <1>16, <1>17, <1>19, <1>20, <1>21, SameNames
     DEF Answers, Edit, EditTypes

-----------------------------------------------------------------------------
(* The theorems *)

\* Every step keeps the invariant.
LEMMA StepIInv == IInv /\ [Next]_vars => IInv'
<1> SUFFICES ASSUME IInv, [Next]_vars PROVE IInv'
  OBVIOUS
<1>1. ASSUME NEW q \in Requests, Upsert(q) PROVE IInv'
  BY <1>1, UpsertStep
<1>2. ASSUME NEW q \in Requests, Refuse(q) PROVE IInv'
  BY <1>2, RefuseStep
<1>3. ASSUME NEW q \in Requests, CreateUser(q) PROVE IInv'
  BY <1>3, CreateUserStep, AnswerStep
<1>4. ASSUME NEW q \in Requests, PasswordChanged(q) PROVE IInv'
  BY <1>4, PasswordChangedStep, AnswerStep
<1>5. ASSUME NEW q \in Requests, AlertSent(q) PROVE IInv'
  BY <1>5, AlertSentStep, AnswerStep
<1>6. ASSUME NEW q \in Requests, NEW x \in Rows, CheckMail(q, x) PROVE IInv'
  BY <1>6, CheckMailStep, SilentStep
<1>7. ASSUME NEW q \in Requests, NEW x \in Rows, Insert(q, x) PROVE IInv'
  BY <1>7, InsertStep, AnswerStep
<1>8. ASSUME NEW q \in Requests, NEW x \in Rows, CreateAction(q, x) PROVE IInv'
  BY <1>8, CreateActionStep, SilentStep
<1>9. ASSUME NEW q \in Requests, NEW x \in Rows, UpdateUser(q, x) \/ DeactivateAction(q, x)
      PROVE  IInv'
  BY <1>9, ChangeStep, AnswerStep DEF UpdateUser, DeactivateAction
<1>10. ASSUME NEW q \in Requests, NEW x \in Rows, ChangePassword(q, x) PROVE IInv'
  BY <1>10, ChangePasswordStep, SilentStep
<1>11. ASSUME NEW q \in Requests, NEW x \in Rows, DeleteUser(q, x) PROVE IInv'
  BY <1>11, DeleteUserStep, AnswerStep
<1>12. ASSUME NEW x \in Rows, ChangeUnflushed(x) PROVE IInv'
  BY <1>12, ChangeUnflushedStep, SilentStep
<1>13. CASE Save
  BY <1>13, SaveStep, SilentStep
<1>14. ASSUME NEW torn \in BOOLEAN, Crash(torn) PROVE IInv'
  BY <1>14, CrashStep
<1>15. CASE UNCHANGED vars
  <2>1. Silent
    <3>1. /\ UNCHANGED <<mode, memory, value, xuid, request, row, flushing, crashes, outages>>
          /\ UNCHANGED <<stored, storedXuid, file, fileXuid, history>>
      BY <1>15 DEF vars, store, postgres, disk, progress
    <3>2. value' \in [Record -> 0..MaxVersion] /\ \A x \in Record : value'[x] >= value[x]
      BY <3>1 DEF IInv, TypeOK
    <3>3. \A z \in Record : Untouched(z)' => Untouched(z) /\ value'[z] = value[z]
      BY <3>1 DEF Untouched
    <3>4. CheckedIsNew' /\ AwaitingHasRow'
      BY <3>1 DEF IInv, CheckedIsNew, AwaitingHasRow
    <3> QED
      BY <3>1, <3>2, <3>3, <3>4, SameExtends, ExtendsStep, SameNames DEF Silent, Edit, EditTypes, IInv, TypeOK
  <2> QED
    BY <2>1, SilentStep
<1>16. ASSUME NEW q \in Requests, NEW player \in SUBSET Ledger, Anonymise(q, player) PROVE IInv'
  BY <1>16, AnonymiseStep, AnswerStep
<1> QED
  BY <1>1, <1>2, <1>3, <1>4, <1>5, <1>6, <1>7, <1>8, <1>9, <1>10, <1>11, <1>12, <1>13,
     <1>14, <1>15, <1>16 DEF Next

\* Types and the inductive invariant: the gate, what a flush that nobody waits for has
\* already stored, and that memory is never older than Postgres (persist.ts).
THEOREM FlushInvariant == Spec => []IInv
<1>1. Init => IInv
  BY InitIInv
<1>2. IInv /\ [Next]_vars => IInv'
  BY StepIInv
<1> QED
  BY <1>1, <1>2, PTL DEF Spec

\* Types of the state of memory, stores and flushes.
THEOREM FlushTypes == Spec => []TypeOK
<1>1. IInv => TypeOK
  BY DEF IInv
<1> QED
  BY <1>1, FlushInvariant, PTL

\* When all flushes have ended, Postgres holds what memory held when the last request was
\* answered, with the XUIDs memory still has, unless two flushes ran side by side or the
\* table comes behind a refusal.
THEOREM SettledIsStored == Spec => []SettledIsDurable
<1>1. IInv => SettledIsDurable
  <2> SUFFICES ASSUME IInv, mode = "prisma", Quiet, ~overlapped,
                      NEW x \in Record, InMemory(x), Table(x) < refusedAt
               PROVE  stored[x] >= due[x] /\ (due[x] > 0 /\ x \in xuid => x \in storedXuid)
    BY DEF SettledIsDurable
  <2>1. PICK i \in Slots(Table(x)) : memory[Table(x)][i] = x
    BY HeldHasSlot DEF IInv
  <2>2. stored[x] >= due[x]
    BY <2>1, Constants DEF IInv, Settled, Durable
  <2>3. due[x] > 0 => stored[x] > 0
    BY <2>2, Constants DEF IInv, TypeOK
  <2> QED
    BY <2>2, <2>3 DEF IInv, XuidsFollow
<1> QED
  BY <1>1, FlushInvariant, PTL

\* Two flushes run side by side only after two requests had waited for the same one.
THEOREM GateKeepsAlone == Spec => []AloneUnlessHerd
<1>1. IInv => AloneUnlessHerd
  <2> SUFFICES ASSUME IInv, Cardinality(Running) > 1, ~herd PROVE FALSE
    BY DEF AloneUnlessHerd, IInv, GateHolds, TypeOK
  <2>1. Alone
    BY DEF IInv, GateHolds
  <2>2. Running \subseteq {flushInFlight}
    BY <2>1 DEF Alone, Running
  <2>3. IsFiniteSet({flushInFlight}) /\ Cardinality({flushInFlight}) = 1
    BY FS_Singleton
  <2>4. Cardinality(Running) <= 1 /\ Cardinality(Running) \in Nat
    BY <2>2, <2>3, FS_Subset, FS_CardinalityType
  <2> QED
    BY <2>4
<1> QED
  BY <1>1, FlushInvariant, PTL

\* Until two requests have waited for the same flush, no stored row goes back to an older
\* version.
THEOREM NothingGoesBack == Spec => NoStaleOverwrite
<1> DEFINE Newer == \A x \in Record : stored'[x] >= stored[x]
<1>1. IInv /\ IInv' /\ [Next]_vars => [~herd' => Newer]_vars
  <2> SUFFICES ASSUME IInv, IInv', Next, ~herd' PROVE Newer
    BY DEF vars
  <2>0. stored \in [Record -> 0..MaxVersion] /\ \A x \in Record : stored[x] \in Nat
    BY DEF IInv, TypeOK
  <2>1. CASE stored' = stored
    BY <2>0, <2>1
  <2>2. ASSUME NEW q \in Requests, Upsert(q)
        PROVE  Newer
    <3>1. flush[q] = "running" /\ stored' = [stored EXCEPT ![sent[q].record] = sent[q].version]
      BY <2>2 DEF Upsert, Stores
    <3>2. ~overlapped
      <4>1. ~overlapped'
        BY DEF IInv, GateHolds
      <4> QED
        BY <2>2, <4>1 DEF Upsert, FinishFlush
    <3>3. stored[sent[q].record] <= sent[q].version /\ sent[q].version \in Nat
      <4>1. sent[q] \in Upserts /\ stored[sent[q].record] <= sent[q].version
        BY <3>1, <3>2 DEF IInv, SentIsNewer, TypeOK, Running
      <4>2. sent[q].version \in 1..MaxVersion
        BY <4>1 DEF Upserts
      <4> QED
        BY <4>1, <4>2
    <3> QED
      BY <2>0, <3>1, <3>3
  <2>3. ASSUME NEW torn \in BOOLEAN, Crash(torn)
        PROVE  Newer
    BY <2>3, CrashStep
  <2> QED
    BY <2>1, <2>2, <2>3 DEF Next, Refuse, CreateUser, PasswordChanged, AlertSent, CheckMail, Insert,
       CreateAction, UpdateUser, DeactivateAction, Change, Anonymise, ChangePassword, DeleteUser,
       ChangeUnflushed, Save, Answer, postgres
<1>2. NoStaleOverwrite <=> [][~herd' => Newer]_vars
  BY DEF NoStaleOverwrite
<1> QED
  BY <1>1, <1>2, FlushInvariant, PTL DEF Spec

=============================================================================
