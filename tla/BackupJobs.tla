----------------------------- MODULE BackupJobs -----------------------------
(***************************************************************************)
(* World backups of the servers of one node, from the request to the       *)
(* record: the backup route and the pin route of the API, the scheduled    *)
(* sweep with its retention, BackupEngine's records, and what the agent    *)
(* does with TRIGGER_BACKUP while the server goes on saving its world.     *)
(*                                                                         *)
(*   apps/api/src/routes/backup.routes.ts, versions.routes.ts              *)
(*   apps/worker/src/index.ts               packages/backups/src/index.ts  *)
(*   packages/bedrock/src/provider.ts       (triggerBackup)                *)
(*   apps/agent/internal/tunnel/client.go   (handleBackup)                 *)
(*   apps/agent/internal/backup/archive.go                                 *)
(*                                                                         *)
(* Commands travel as the calls of RemoteCall, which AgentTunnel           *)
(* implements; the agent carries them out one at a time, in order.  The    *)
(* sweep runs in the process that holds the records and the tunnel, as it  *)
(* does in packages/e2e (started on its own, the worker has neither).  API *)
(* code runs to completion between awaits: one action per such part.       *)
(* Records are created at distinct times, so job numbers order createdAt.  *)
(* The agent archives one directory, whatever server a command names.      *)
(***************************************************************************)
EXTENDS Naturals, Sequences, FiniteSets

CONSTANTS NumServers, \* servers of the node, in the order of db.servers
          MaxJobs,    \* bound: backup records created
          Keep,       \* BACKUP_RETENTION_COUNT
          MaxSaves,   \* bound: times the server rewrites its world
          MaxFaults   \* bound: lost links, agent deaths, server exits

ASSUME BackupAssumption ==
  /\ NumServers \in Nat \ {0}
  /\ MaxJobs \in Nat /\ Keep \in Nat
  /\ MaxSaves \in Nat /\ MaxFaults \in Nat

Servers == 1..NumServers
Jobs == 1..MaxJobs
Nil == 0

VARIABLES
  alive,   \* the API process runs; it is not restarted here
  r2,      \* R2 credentials are configured; never changes
  rec,     \* per job: the status of its record, "pruned" when removed
  of,      \* per job: the server it is for
  by,      \* per job: what created it
  stage,   \* per job: how far its asynchronous function is
  call,    \* per job: RemoteCall's view of TRIGGER_BACKUP from the API
  effect,  \* per job: what the agent made of it
  queue,   \* commands sent and not yet begun
  busy,    \* the job handleBackup is working on
  holding, \* per job: its "save hold" was answered
  held,    \* the server has stopped writing its world
  up,      \* the server process runs and answers RCON
  world,   \* version of the world files on disk
  first,   \* per job: version when the archive was begun
  last,    \* per job: version when it was finished
  bucket,  \* jobs whose archive is an object in R2
  faults,  \* count against MaxFaults
  stuck    \* history: the hold in force was left behind by a failed
           \* "save resume", by an agent that died, or by a "save hold" that
           \* was obeyed while its answer was not received

records == <<rec, of, by, stage>>
calls == <<call, effect, queue>>
node == <<busy, holding, held, up, world, first, last, stuck>>
vars == <<alive, r2, records, calls, node, bucket, faults>>

Tunnel == INSTANCE RemoteCall WITH Calls <- Jobs

RecordsOK ==
  /\ rec \in [Jobs -> {"none", "PENDING", "RUNNING", "COMPLETED", "FAILED",
                       "pruned"}]
  /\ of \in [Jobs -> Servers \cup {Nil}]
  /\ by \in [Jobs -> {"none", "route", "sweep", "pin"}]
  /\ stage \in [Jobs -> {"none", "presign", "dispatch", "over", "threw"}]
  /\ \A j \in Jobs : of[j] = Nil <=> rec[j] = "none"
  /\ \A j \in Jobs : by[j] = "none" <=> rec[j] = "none"

CallsOK ==
  /\ call \in [Jobs -> {"none", "local", "waiting", "rejected", "ok", "failed"}]
  /\ effect \in [Jobs -> {"none", "ok", "failed"}]
  /\ queue \in Seq(Jobs)

NodeOK ==
  /\ busy \in Jobs \cup {Nil}
  /\ holding \in [Jobs -> BOOLEAN]
  /\ held \in BOOLEAN /\ up \in BOOLEAN /\ stuck \in BOOLEAN
  /\ world \in 0..MaxSaves
  /\ first \in [Jobs -> 0..MaxSaves] /\ last \in [Jobs -> 0..MaxSaves]

TypeOK ==
  /\ RecordsOK /\ CallsOK /\ NodeOK
  /\ alive \in BOOLEAN /\ r2 \in BOOLEAN
  /\ bucket \subseteq Jobs
  /\ faults \in 0..MaxFaults

Init ==
  /\ alive = TRUE
  /\ r2 \in BOOLEAN
  /\ rec = [j \in Jobs |-> "none"]
  /\ of = [j \in Jobs |-> Nil]
  /\ by = [j \in Jobs |-> "none"]
  /\ stage = [j \in Jobs |-> "none"]
  /\ Tunnel!RInit
  /\ queue = <<>>
  /\ busy = Nil
  /\ holding = [j \in Jobs |-> FALSE]
  /\ held = FALSE
  /\ up \in BOOLEAN
  /\ world = 0
  /\ first = [j \in Jobs |-> 0]
  /\ last = [j \in Jobs |-> 0]
  /\ bucket = {}
  /\ faults = 0
  /\ stuck = FALSE

-----------------------------------------------------------------------------
(* Records and the functions that drive them *)

Fresh(j) == rec[j] = "none" /\ \A i \in 1..(j - 1) : rec[i] # "none"

\* BackupEngine.triggerBackup and, unless the record is only left PENDING,
\* prepareStreamingBackup up to its await.
Create(j, s, who) ==
  /\ alive /\ Fresh(j)
  /\ of' = [of EXCEPT ![j] = s]
  /\ by' = [by EXCEPT ![j] = who]

Prepare(j, s, who) ==
  /\ Create(j, s, who)
  /\ rec' = [rec EXCEPT ![j] = "RUNNING"]
  /\ stage' = [stage EXCEPT ![j] = "presign"]

\* POST /backups.
RouteTrigger(j) ==
  /\ \E s \in Servers : Prepare(j, s, "route")
  /\ UNCHANGED <<alive, r2, calls, node, bucket, faults>>

\* POST /versions/servers/:id/pin and the setup pipeline: a record that
\* nothing ever executes.
PinTrigger(j) ==
  /\ \E s \in Servers : Create(j, s, "pin")
  /\ rec' = [rec EXCEPT ![j] = "PENDING"]
  /\ UNCHANGED <<alive, r2, stage, calls, node, bucket, faults>>

\* BackgroundJobWorker.runScheduledBackupSweep begins.  Nothing keeps a sweep
\* from starting while the one before still waits for an answer.
SweepStart(j) ==
  /\ Prepare(j, 1, "sweep")
  /\ UNCHANGED <<alive, r2, calls, node, bucket, faults>>

\* The presigned URL is there, and provider.triggerBackup sends the command,
\* or answers with a stub when the agent is not connected.
Dispatch(j) ==
  /\ alive /\ stage[j] = "presign"
  /\ stage' = [stage EXCEPT ![j] = "dispatch"]
  /\ \/ Tunnel!Issue(j) /\ queue' = Append(queue, j)
     \/ Tunnel!Divert(j) /\ UNCHANGED queue
  /\ UNCHANGED <<alive, r2, rec, of, by, node, bucket, faults>>

\* The answer, or the 15 s timer.
Answer(j) ==
  /\ alive
  /\ Tunnel!Answer(j)
  /\ UNCHANGED <<alive, r2, records, queue, node, bucket, faults>>

Timeout(j) ==
  /\ alive
  /\ Tunnel!GiveUp(j)
  /\ UNCHANGED <<alive, r2, records, queue, node, bucket, faults>>

Resolved(j) == alive /\ stage[j] = "dispatch" /\ call[j] # "waiting"

\* Mutant: a command that timed out or was never sent counts as done.
LateIsFine(j) ==
  [rec EXCEPT ![j] = IF call[j] # "failed" THEN "COMPLETED" ELSE "FAILED"]

\* Mutant: the exception of a timeout is not caught.
NoCatch(j) ==
  [rec EXCEPT ![j] = CASE call[j] = "ok" -> "COMPLETED"
                       [] call[j] = "rejected" -> rec[j]
                       [] OTHER -> "FAILED"]

\* completeBackup or failBackup.
Finalised(j) ==
  [rec EXCEPT ![j] = IF call[j] = "ok" THEN "COMPLETED" ELSE "FAILED"]

\* The rest of the backup route.  When the record is gone completeBackup
\* throws, and so does failBackup in the handler of that exception: Express 4
\* does not await the route, so the rejection is unhandled and the process
\* ends, with every function it was running.
RouteSettle(j) ==
  /\ by[j] = "route" /\ Resolved(j)
  /\ \/ /\ rec[j] # "pruned"
        /\ rec' = Finalised(j)
        /\ stage' = [stage EXCEPT ![j] = "over"]
        /\ UNCHANGED alive
     \/ /\ rec[j] = "pruned"
        /\ stage' = [stage EXCEPT ![j] = "threw"]
        /\ alive' = FALSE
        /\ UNCHANGED rec
  /\ UNCHANGED <<r2, of, by, calls, node, bucket, faults>>

Listed(r, s) == {j \in Jobs : of[j] = s /\ r[j] \notin {"none", "pruned"}}

\* Mutant: the backups of other servers count.
NewerAnywhere(r, j) ==
  {i \in Jobs : r[i] \notin {"none", "pruned"} /\ i > j}

Newer(r, j) == {i \in Listed(r, of[j]) : i > j}

\* BackupEngine.applyRetentionPolicy: the newest Keep records of the server
\* stay, whatever their status; nothing is deleted from R2.
Retained(r, s) ==
  [j \in Jobs |-> IF j \in Listed(r, s) /\ Cardinality(Newer(r, j)) >= Keep
                    THEN "pruned" ELSE r[j]]

HasNext(j) == of[j] < NumServers

\* The rest of the sweep's loop body and, up to its await, the next one.  An
\* exception is caught and ends the sweep; so does the bound on jobs.
SweepSettle(j) ==
  /\ by[j] = "sweep" /\ Resolved(j)
  /\ \/ /\ rec[j] = "pruned"
        /\ stage' = [stage EXCEPT ![j] = "threw"]
        /\ UNCHANGED <<rec, of, by>>
     \/ LET kept == Retained(Finalised(j), of[j])
            over == [stage EXCEPT ![j] = "over"]
            next == {k \in Jobs : HasNext(j) /\ Fresh(k)}
        IN /\ rec[j] # "pruned"
           /\ rec' = [k \in Jobs |-> IF k \in next THEN "RUNNING" ELSE kept[k]]
           /\ stage' = [k \in Jobs |-> IF k \in next THEN "presign" ELSE over[k]]
           /\ of' = [k \in Jobs |-> IF k \in next THEN of[j] + 1 ELSE of[k]]
           /\ by' = [k \in Jobs |-> IF k \in next THEN "sweep" ELSE by[k]]
  /\ UNCHANGED <<alive, r2, calls, node, bucket, faults>>

-----------------------------------------------------------------------------
(* The agent *)

\* Mutant: "save resume" is sent before the archive is read.
ResumeFirst(j) ==
  /\ busy = Nil
  /\ queue # <<>> /\ j = Head(queue)
  /\ queue' = Tail(queue)
  /\ busy' = j
  /\ first' = [first EXCEPT ![j] = world]
  /\ holding' = [holding EXCEPT ![j] = up]
  /\ UNCHANGED <<alive, r2, records, call, effect, held, up, world, last, stuck,
                 bucket, faults>>

\* Mutant: a command is read, and left to be read again.
PeekBackup(j) ==
  /\ busy = Nil
  /\ queue # <<>> /\ j = Head(queue)
  /\ busy' = j
  /\ first' = [first EXCEPT ![j] = world]
  /\ UNCHANGED <<alive, r2, records, calls, holding, held, up, world, last, stuck,
                 bucket, faults>>

\* handleBackup up to the archive.  Without a world directory, or with an
\* upload host that is not allowed, it fails at once; an error of "save hold"
\* does not stop it.  A hold may be obeyed and its answer not come in time:
\* it counts as not held then, and is not resumed after the archive.
BeginBackup(j) ==
  /\ busy = Nil
  /\ queue # <<>> /\ j = Head(queue)
  /\ queue' = Tail(queue)
  /\ \/ /\ effect' = [effect EXCEPT ![j] = "failed"]
        /\ UNCHANGED <<busy, holding, held, first, stuck>>
     \/ /\ busy' = j
        /\ first' = [first EXCEPT ![j] = world]
        /\ \E obeyed \in {FALSE, up} : \E answered \in {FALSE, obeyed} :
             /\ holding' = [holding EXCEPT ![j] = answered]
             /\ held' = (held \/ obeyed)
             /\ stuck' = (stuck \/ (obeyed /\ ~answered))
        /\ UNCHANGED effect
  /\ UNCHANGED <<alive, r2, records, call, up, world, last, bucket, faults>>

\* What StreamWorldArchive may return, and whether there is an object in R2
\* then.  The upload may have succeeded and its answer been lost; without R2
\* the temporary file is removed and the result is success all the same.
Archived(outcome, stored) ==
  /\ stored => r2
  /\ r2 /\ outcome = "ok" => stored

\* The archive is finished, "save resume" is sent whatever came of it, and the
\* command is answered.
EndBackup(j) ==
  /\ busy = j
  /\ busy' = Nil
  /\ last' = [last EXCEPT ![j] = world]
  /\ \E outcome \in {"ok", "failed"}, stored \in BOOLEAN :
       /\ Archived(outcome, stored)
       /\ effect' = [effect EXCEPT ![j] = outcome]
       /\ bucket' = bucket \cup {k \in {j} : stored}
  /\ \E resumed \in {FALSE, up /\ holding[j]} :
       /\ held' = (held /\ ~resumed)
       /\ stuck' = (held' /\ (stuck \/ holding[j]))
  /\ UNCHANGED <<alive, r2, records, call, queue, holding, up, world, first, faults>>

-----------------------------------------------------------------------------
(* The surroundings *)

\* The server writes its world, unless told to hold.
Save ==
  /\ up /\ ~held
  /\ world < MaxSaves
  /\ world' = world + 1
  /\ UNCHANGED <<alive, r2, records, calls, busy, holding, held, up, first, last,
                 stuck, bucket, faults>>

Fault == faults < MaxFaults /\ faults' = faults + 1

\* The server process exits, and a hold with it.
ServerExits ==
  /\ up /\ Fault
  /\ up' = FALSE /\ held' = FALSE /\ stuck' = FALSE
  /\ UNCHANGED <<alive, r2, records, calls, busy, holding, world, first, last, bucket>>

\* Commands start it again; they wait for the backup in progress.
ServerStarts ==
  /\ ~up /\ busy = Nil
  /\ up' = TRUE
  /\ UNCHANGED <<alive, r2, records, calls, busy, holding, held, world, first, last,
                 stuck, bucket, faults>>

\* The link breaks, by itself or with the API: what was sent and not yet read
\* is lost.
LinkBreaks ==
  /\ IF alive THEN Fault ELSE UNCHANGED faults
  /\ queue # <<>>
  /\ queue' = <<>>
  /\ UNCHANGED <<alive, r2, records, call, effect, node, bucket>>

AgentDies ==
  /\ Fault
  /\ queue' = <<>>
  /\ busy' = Nil
  /\ stuck' = held
  /\ UNCHANGED <<alive, r2, records, call, effect, holding, held, up, world, first,
                 last, bucket>>

Next ==
  \/ \E j \in Jobs : \/ RouteTrigger(j) \/ PinTrigger(j) \/ SweepStart(j)
                     \/ Dispatch(j) \/ Answer(j) \/ Timeout(j)
                     \/ RouteSettle(j) \/ SweepSettle(j)
                     \/ BeginBackup(j) \/ EndBackup(j)
  \/ Save \/ ServerExits \/ ServerStarts \/ LinkBreaks \/ AgentDies

Spec == Init /\ [][Next]_vars

\* Promises that are settled are gone on with, and timers fire.  Nothing is
\* asked of the agent, the link or the server.
FairSpec ==
  /\ Spec
  /\ \A j \in Jobs : WF_vars(Dispatch(j) \/ Timeout(j)
                              \/ RouteSettle(j) \/ SweepSettle(j))

-----------------------------------------------------------------------------
(* Properties *)

\* Only a backup the agent reported done is COMPLETED, and the object its
\* storageUrl names exists: completeBackup after a timeout, a late answer, an
\* answer to another job or a lost upload would break it.
CompletedIsTrue ==
  \A j \in Jobs :
    rec[j] = "COMPLETED" => effect[j] = "ok" /\ (r2 => j \in bucket)

\* A finished backup never changes its mind: an answer that comes after the
\* timer, or after retention, leaves the record alone.
FinishedIsFinal ==
  [][\A j \in Jobs :
       (rec[j] \in {"COMPLETED", "FAILED", "pruned"}) =>
         rec'[j] \in {rec[j], "pruned"}]_vars

\* Retention never removes a record of which fewer than Keep newer ones of
\* the same server were made.
NewestAreKept ==
  \A j \in Jobs :
    rec[j] = "pruned" => Cardinality({i \in Jobs : of[i] = of[j] /\ i > j}) >= Keep

\* An archive taken under a hold shows the world at one moment.
HeldIsWhole ==
  \A j \in Jobs : holding[j] /\ effect[j] = "ok" => first[j] = last[j]

\* handleBackup resumes on every path after a hold that was answered: a world
\* that is held while no backup runs was left so by a resume that failed, an
\* agent that died or a hold whose answer did not come.
HeldHasCause == held /\ busy = Nil => stuck

\* Backups ask of the tunnel no more than it gives: seen through their calls
\* alone they are remote calls, each carried out at most once and answered, if
\* at all, with its own outcome.
BackupsAreRemoteCalls == Tunnel!RSpec

\* Whatever becomes of agent, link and server, no record stays RUNNING, unless
\* a route that met a pruned record has ended the API process meanwhile.
RunsEnd == \A j \in Jobs : rec[j] = "RUNNING" ~> rec[j] # "RUNNING" \/ ~alive

\* Were the API's end a clean one, no record would be left RUNNING by it.
EndLeavesNothing == ~alive => \A j \in Jobs : rec[j] # "RUNNING"

\* SHIP_READINESS.md:38: without R2 credentials "backups archive locally /
\* report honest stubs".  So a backup that is COMPLETED has its archive in
\* R2, the one place left: the local file does not outlive the command.
CompletedIsKept == \A j \in Jobs : rec[j] = "COMPLETED" => j \in bucket

=============================================================================
