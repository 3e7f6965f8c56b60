------------------------------ MODULE Windows -------------------------------
(***************************************************************************)
(* The two sliding windows the API keeps in memory                         *)
(* (packages/analytics/src/index.ts): RateLimiter, which guards the power  *)
(* route (apps/api/src/middleware/rate-limit.middleware.ts), here for one  *)
(* key, and JoinFloodMonitor, which every player join is noted in          *)
(* (apps/api/src/joinFlood.ts).                                            *)
(*                                                                         *)
(* Time is a counter.  Several requests and joins may happen within one    *)
(* tick, as they do within one millisecond.  Date.now() is taken to be     *)
(* monotonic: a clock set back is not modelled.                            *)
(*                                                                         *)
(* The arrays of the code are only pushed to and filtered.  Here they are  *)
(* sets of numbered entries; the order of an array is that of the numbers. *)
(***************************************************************************)
EXTENDS Integers, FiniteSets

CONSTANTS
  Players,      \* who joins, one xuid each
  Limit,        \* RateLimiter limit
  Threshold,    \* JoinFloodMonitor threshold
  WindowMs,     \* the window of both
  MaxTime,      \* bound: the clock
  MaxRequests,  \* bound: requests the limiter granted
  MaxJoins      \* bound: joins noted

ASSUME WindowAssumption ==
  /\ Limit \in Nat \ {0} /\ Threshold \in Nat \ {0} /\ WindowMs \in Nat \ {0}
  /\ MaxTime \in Nat /\ MaxRequests \in Nat /\ MaxJoins \in Nat

VARIABLES
  clock,    \* Date.now()
  hits,     \* RateLimiter.hits of the key: the requests it remembers
  granted,  \* history: all requests it let through
  retryAt,  \* history: when the last refused caller may try again, 0: none
  events,   \* JoinFloodMonitor.events: what it remembers
  joins,    \* history: every join
  verdict,  \* the result of the last join
  alarms    \* JOIN_FLOOD_DETECTED entries in the audit log

limiter == <<hits, granted, retryAt>>
monitor == <<events, joins, verdict, alarms>>
wvars == <<clock, limiter, monitor>>

Hit == [no : 1..MaxRequests, at : 0..MaxTime]
Join == [no : 1..MaxJoins, xuid : Players, at : 0..MaxTime]

WTypeOK ==
  /\ clock \in 0..MaxTime
  /\ hits \subseteq Hit /\ granted \subseteq Hit
  /\ retryAt \in 0..MaxTime + WindowMs
  /\ events \subseteq Join /\ joins \subseteq Join
  /\ verdict \in [flood : BOOLEAN, count : 0..MaxJoins, unique : 0..MaxJoins,
                  bots : BOOLEAN]
  /\ alarms \in 0..MaxJoins

WInit ==
  /\ clock = 0
  /\ hits = {} /\ granted = {} /\ retryAt = 0
  /\ events = {} /\ joins = {}
  /\ verdict = [flood |-> FALSE, count |-> 0, unique |-> 0, bots |-> FALSE]
  /\ alarms = 0

Tick ==
  /\ clock < MaxTime /\ clock' = clock + 1
  /\ UNCHANGED <<limiter, monitor>>

-----------------------------------------------------------------------------
(* RateLimiter.check.                                                       *)

\* Mutant of Recent: a hit counts for one tick more.
RecentToo(now) == {h \in hits : h.at >= now - WindowMs}

\* The hits of the window that ends now; one exactly WindowMs old is out.
Recent(now) == {h \in hits : h.at > now - WindowMs}
Allows(now) == Cardinality(Recent(now)) < Limit

\* The first of an array of hits.
Oldest(hs) == CHOOSE h \in hs : \A g \in hs : h.no <= g.no

\* A request to the limiter.  A refused one is not remembered; it is told when
\* the oldest hit leaves the window.
Check ==
  /\ IF Allows(clock)
       THEN LET hit == [no |-> Cardinality(granted) + 1, at |-> clock]
            IN  /\ Cardinality(granted) < MaxRequests
                /\ hits' = Recent(clock) \cup {hit}
                /\ granted' = granted \cup {hit}
                /\ retryAt' = 0
       ELSE /\ hits' = Recent(clock)
            /\ retryAt' = Oldest(Recent(clock)).at + WindowMs
            /\ UNCHANGED granted
  /\ UNCHANGED <<clock, monitor>>

-----------------------------------------------------------------------------
(* JoinFloodMonitor.record and detectJoinFlood.                             *)

\* The events of es that are within the window ending now.
InWindow(es, now) == {e \in es : e.at > now - WindowMs /\ e.at <= now}

\* Mutant of Pruned: only as many events are kept as the threshold asks for.
PrunedToSize(es, now) ==
  LET kept == InWindow(es, now)
  IN  {e \in kept : Cardinality({f \in kept : f.no > e.no}) < Threshold}

\* What the monitor keeps of es.
Pruned(es, now) == {e \in es : e.at > now - WindowMs}

\* A flood: at least Threshold joins; bots: three or more joins per player.
Judge(es) ==
  LET count == Cardinality(es)
      unique == Cardinality({e.xuid : e \in es})
      flood == count >= Threshold
  IN  [flood |-> flood, count |-> count, unique |-> unique,
       bots |-> flood /\ unique > 0 /\ count >= 3 * unique]

\* JoinFloodMonitor.record.
NoteJoin(p) ==
  LET e == [no |-> Cardinality(joins) + 1, xuid |-> p, at |-> clock]
  IN  /\ Cardinality(joins) < MaxJoins
      /\ joins' = joins \cup {e}
      /\ events' = Pruned(events \cup {e}, clock)
      /\ verdict' = Judge(InWindow(events', clock))

\* A join that is part of a flood is an alarm, each one anew.
notePlayerJoin(p) ==
  /\ NoteJoin(p)
  /\ alarms' = IF verdict'.flood THEN alarms + 1 ELSE alarms
  /\ UNCHANGED <<clock, limiter>>

-----------------------------------------------------------------------------
(* Properties.                                                              *)

\* The limiter keeps its word: no window of WindowMs sees more than Limit
\* requests let through, and a refused caller is told the exact moment: until
\* then every request is refused, from then on one is let through.
LimitIsExact ==
  /\ \A t \in 0..MaxTime :
       Cardinality({g \in granted : t - WindowMs < g.at /\ g.at <= t}) <= Limit
  /\ retryAt # 0 => (Allows(clock) <=> clock >= retryAt)

\* The verdict on join j that all joins noted up to it call for.
Verdict(j) == Judge(InWindow({e \in joins : e.no <= j.no}, j.at))

\* The monitor has forgotten most joins, and yet the verdict given for a join is
\* the one all joins ever noted call for, and the alarms raised so far are as many
\* as there were joins that completed a flood.
FloodIsTrue ==
  /\ \A j \in joins : j.no = Cardinality(joins) => verdict = Verdict(j)
  /\ alarms = Cardinality({j \in joins : Verdict(j).flood})

=============================================================================
