-------------------------- MODULE BackupJobsProofs --------------------------
(***************************************************************************)
(* The safety properties of backups for any number of servers, jobs, saves *)
(* and faults and any retention count.  None is inductive alone: what a    *)
(* record says follows from what its call was answered, the answer from    *)
(* what the agent did, and that no outcome is overwritten from the fact    *)
(* that a job is in the agent's queue at most once, before its outcome is  *)
(* there.                                                                  *)
(***************************************************************************)
EXTENDS BackupJobs, FiniteSetTheorems, SequenceTheorems, TLAPS

\* A command that was sent and has no outcome yet.
Sent(j) == call[j] \in {"waiting", "rejected"} /\ effect[j] = "none"

\* Commands wait at most once each, and the agent works on none that waits.
QueueInv ==
  /\ \A m \in 1..Len(queue) : Sent(queue[m]) /\ queue[m] # busy
  /\ \A m, n \in 1..Len(queue) : queue[m] = queue[n] => m = n
  /\ busy # Nil => Sent(busy)

\* Answers are outcomes, and outcomes are of calls that were sent.
CallInv ==
  \A j \in Jobs :
    /\ call[j] \in {"none", "local"} => effect[j] = "none"
    /\ call[j] \in {"ok", "failed"} => effect[j] = call[j]
    /\ r2 /\ effect[j] = "ok" => j \in bucket

\* A record is finished by its own function, once, as its call was answered.
RecordInv ==
  \A j \in Jobs :
    /\ rec[j] = "COMPLETED" => call[j] = "ok"
    /\ stage[j] \in {"presign", "dispatch"} => rec[j] \in {"RUNNING", "pruned"}

\* The hold of the backup in progress is in force unless the server is down.
HoldInv ==
  busy # Nil =>
    /\ holding[busy] => first[busy] = world /\ (up => held)
    /\ held => stuck \/ holding[busy]

IInv ==
  /\ TypeOK
  /\ QueueInv
  /\ CallInv
  /\ RecordInv
  /\ HoldInv
  /\ CompletedIsTrue
  /\ NewestAreKept
  /\ HeldIsWhole
  /\ HeldHasCause

-----------------------------------------------------------------------------
(* Initially *)

\* The initial states satisfy the invariant.
LEMMA InitIInv == Init => IInv
<1> SUFFICES ASSUME Init PROVE IInv
  OBVIOUS
<1> USE BackupAssumption DEF Init, Tunnel!RInit, Jobs, Servers, Nil
<1>1. RecordsOK
  BY DEF RecordsOK
<1>2. CallsOK
  BY DEF CallsOK
<1>3. NodeOK
  <2>1. holding \in [Jobs -> BOOLEAN]
    OBVIOUS
  <2>2. held \in BOOLEAN /\ up \in BOOLEAN /\ stuck \in BOOLEAN
    OBVIOUS
  <2>3. /\ busy \in Jobs \cup {Nil}
        /\ world \in 0..MaxSaves
        /\ first \in [Jobs -> 0..MaxSaves] /\ last \in [Jobs -> 0..MaxSaves]
    OBVIOUS
  <2> QED
    BY ONLY <2>1, <2>2, <2>3 DEF NodeOK
<1>4. r2 \in BOOLEAN /\ bucket \subseteq Jobs /\ faults \in 0..MaxFaults
  OBVIOUS
<1>5. TypeOK
  BY <1>1, <1>2, <1>3, <1>4 DEF TypeOK
<1>6. QueueInv /\ CallInv
  BY DEF QueueInv, CallInv
<1>7. RecordInv /\ HoldInv
  BY DEF RecordInv, HoldInv
<1>8. CompletedIsTrue /\ NewestAreKept /\ HeldIsWhole /\ HeldHasCause
  BY DEF CompletedIsTrue, NewestAreKept, HeldIsWhole, HeldHasCause
<1> QED
  BY <1>5, <1>6, <1>7, <1>8 DEF IInv

-----------------------------------------------------------------------------
(* Records *)

\* What a settled record may have become, and why a record was pruned.
LEMMA RetainedType ==
  ASSUME NEW r, NEW s, NEW j \in Jobs
  PROVE  /\ Retained(r, s)[j] \in {r[j], "pruned"}
         /\ Retained(r, s)[j] = "pruned" =>
              \/ r[j] = "pruned"
              \/ j \in Listed(r, s) /\ Cardinality(Newer(r, j)) >= Keep
BY DEF Retained

\* Every step keeps the types of the records.
LEMMA RecordsStep == TypeOK /\ [Next]_vars => RecordsOK'
<1> SUFFICES ASSUME TypeOK, [Next]_vars PROVE RecordsOK'
  OBVIOUS
<1>0. RecordsOK
  BY DEF TypeOK
<1>1. CASE UNCHANGED records
  BY <1>0, <1>1 DEF RecordsOK, records
<1>2. ASSUME NEW j \in Jobs, RouteTrigger(j) \/ PinTrigger(j) \/ SweepStart(j)
      PROVE  RecordsOK'
  <2> PICK s \in Servers, w \in {"route", "sweep", "pin"},
           r \in {"RUNNING", "PENDING"}, t \in {"presign", "none"} :
        /\ rec' = [rec EXCEPT ![j] = r]
        /\ of' = [of EXCEPT ![j] = s]
        /\ by' = [by EXCEPT ![j] = w]
        /\ stage' \in {stage, [stage EXCEPT ![j] = t]}
    BY <1>2, BackupAssumption
       DEF RouteTrigger, PinTrigger, SweepStart, Prepare, Create, Servers
  <2>1. s # Nil
    BY DEF Servers, Nil
  <2> QED
    BY <1>0, <2>1 DEF RecordsOK
<1>3. ASSUME NEW j \in Jobs, Dispatch(j) PROVE RecordsOK'
  BY <1>0, <1>3 DEF Dispatch, RecordsOK
<1>4. ASSUME NEW j \in Jobs, RouteSettle(j) PROVE RecordsOK'
  <2>1. rec[j] # "none"
    BY <1>0, <1>4 DEF RouteSettle, RecordsOK
  <2>2. PICK r \in {"COMPLETED", "FAILED", "pruned"}, t \in {"over", "threw"} :
          /\ rec' = [rec EXCEPT ![j] = r]
          /\ stage' = [stage EXCEPT ![j] = t]
          /\ UNCHANGED <<of, by>>
    BY <1>0, <1>4 DEF RouteSettle, Finalised, RecordsOK
  <2> QED
    BY <1>0, <2>1, <2>2 DEF RecordsOK
<1>5. ASSUME NEW j \in Jobs, SweepSettle(j) PROVE RecordsOK'
  <2>1. rec[j] # "none" /\ of[j] \in Servers
    BY <1>0, <1>5 DEF SweepSettle, RecordsOK
  <2>2. CASE rec[j] = "pruned"
    BY <1>0, <1>5, <2>2 DEF SweepSettle, RecordsOK
  <2>3. CASE rec[j] # "pruned"
    <3> DEFINE kept == Retained(Finalised(j), of[j])
               over == [stage EXCEPT ![j] = "over"]
               next == {k \in Jobs : HasNext(j) /\ Fresh(k)}
    <3>1. \A k \in Jobs :
            /\ rec'[k] = IF k \in next THEN "RUNNING" ELSE kept[k]
            /\ stage'[k] = IF k \in next THEN "presign" ELSE over[k]
            /\ of'[k] = IF k \in next THEN of[j] + 1 ELSE of[k]
            /\ by'[k] = IF k \in next THEN "sweep" ELSE by[k]
      BY <1>5, <2>3 DEF SweepSettle
    <3>2. /\ rec' = [k \in Jobs |-> rec'[k]]
          /\ stage' = [k \in Jobs |-> stage'[k]]
          /\ of' = [k \in Jobs |-> of'[k]]
          /\ by' = [k \in Jobs |-> by'[k]]
      BY <1>5, <2>3 DEF SweepSettle
    <3>3. \A k \in Jobs :
            /\ kept[k] \in {rec[k], "pruned", "COMPLETED", "FAILED"}
            /\ rec[k] = "none" <=> kept[k] = "none"
      <4> TAKE k \in Jobs
      <4>1. Finalised(j)[k] \in {rec[k], "COMPLETED", "FAILED"}
        BY <1>0 DEF Finalised, RecordsOK
      <4>2. Finalised(j)[k] = "none" <=> rec[k] = "none"
        BY <1>0, <2>1 DEF Finalised, RecordsOK
      <4>3. Finalised(j)[k] = "none" => kept[k] = "none"
        BY DEF Retained, Listed
      <4> QED
        BY <4>1, <4>2, <4>3, RetainedType
    <3>4. \A k \in next : rec[k] = "none" /\ of[j] + 1 \in Servers /\ of[j] + 1 # Nil
      BY <2>1, BackupAssumption DEF HasNext, Fresh, Servers, Nil
    <3> HIDE DEF kept, next
    <3>5. \A k \in Jobs :
            /\ rec'[k] \in {"none", "PENDING", "RUNNING", "COMPLETED", "FAILED",
                            "pruned"}
            /\ stage'[k] \in {"none", "presign", "dispatch", "over", "threw"}
            /\ of'[k] \in Servers \cup {Nil}
            /\ by'[k] \in {"none", "route", "sweep", "pin"}
            /\ of'[k] = Nil <=> rec'[k] = "none"
            /\ by'[k] = "none" <=> rec'[k] = "none"
      BY <1>0, <3>1, <3>3, <3>4 DEF RecordsOK
    <3> QED
      BY <3>2, <3>5 DEF RecordsOK
  <2> QED
    BY <2>2, <2>3
<1> QED
  BY <1>1, <1>2, <1>3, <1>4, <1>5
     DEF Next, vars, records, Answer, Timeout, BeginBackup, EndBackup, Save,
         ServerExits, ServerStarts, LinkBreaks, AgentDies

-----------------------------------------------------------------------------
(* Calls and the node *)

\* Every step keeps the types of calls.
LEMMA CallsStep == TypeOK /\ [Next]_vars => CallsOK'
<1> SUFFICES ASSUME TypeOK, [Next]_vars PROVE CallsOK'
  OBVIOUS
<1>0. CallsOK
  BY DEF TypeOK
<1>1. CASE UNCHANGED calls
  BY <1>0, <1>1 DEF CallsOK, calls
<1>2. ASSUME NEW j \in Jobs, Dispatch(j) PROVE CallsOK'
  BY <1>0, <1>2 DEF Dispatch, Tunnel!Issue, Tunnel!Divert, CallsOK
<1>3. ASSUME NEW j \in Jobs, Answer(j) \/ Timeout(j) PROVE CallsOK'
  <2>1. CASE Answer(j)
    BY <1>0, <2>1 DEF Answer, Tunnel!Answer, CallsOK
  <2>2. CASE Timeout(j)
    BY <1>0, <2>2 DEF Timeout, Tunnel!GiveUp, CallsOK
  <2> QED
    BY <1>3, <2>1, <2>2
<1>4. ASSUME NEW j \in Jobs, BeginBackup(j) \/ EndBackup(j) PROVE CallsOK'
  <2>1. \E o \in {"none", "ok", "failed"} : effect' \in {effect, [effect EXCEPT ![j] = o]}
    BY <1>4 DEF BeginBackup, EndBackup
  <2>2. call' = call /\ (queue' = queue \/ (queue # <<>> /\ queue' = Tail(queue)))
    BY <1>4 DEF BeginBackup, EndBackup
  <2> QED
    BY <1>0, <2>1, <2>2 DEF CallsOK
<1>5. CASE LinkBreaks \/ AgentDies
  <2>1. queue' = <<>> /\ UNCHANGED <<call, effect>>
    BY <1>5 DEF LinkBreaks, AgentDies
  <2> QED
    BY <1>0, <2>1 DEF CallsOK
<1> QED
  BY <1>1, <1>2, <1>3, <1>4, <1>5
     DEF Next, vars, calls, RouteTrigger, PinTrigger, SweepStart, RouteSettle,
         SweepSettle, Save, ServerExits, ServerStarts

\* Every step keeps the types of the node.
LEMMA NodeStep == TypeOK /\ [Next]_vars => NodeOK'
<1> SUFFICES ASSUME TypeOK, [Next]_vars PROVE NodeOK'
  OBVIOUS
<1>0. NodeOK
  BY DEF TypeOK
<1>1. CASE UNCHANGED node
  BY <1>0, <1>1 DEF NodeOK, node
<1>2. ASSUME NEW j \in Jobs, BeginBackup(j) PROVE NodeOK'
  BY <1>0, <1>2 DEF BeginBackup, NodeOK
<1>3. ASSUME NEW j \in Jobs, EndBackup(j) PROVE NodeOK'
  <2>1. held' \in BOOLEAN /\ up' \in BOOLEAN /\ stuck' \in BOOLEAN
    BY <1>0, <1>3, Zenon DEF EndBackup, NodeOK
  <2>2. /\ busy' \in Jobs \cup {Nil}
        /\ holding' \in [Jobs -> BOOLEAN]
        /\ world' \in 0..MaxSaves
    BY <1>0, <1>3 DEF EndBackup, NodeOK
  <2>3. first' \in [Jobs -> 0..MaxSaves] /\ last' \in [Jobs -> 0..MaxSaves]
    BY <1>0, <1>3 DEF EndBackup, NodeOK
  <2> QED
    BY ONLY <2>1, <2>2, <2>3 DEF NodeOK
<1>4. CASE Save
  BY <1>0, <1>4, BackupAssumption DEF Save, NodeOK
<1>5. CASE ServerExits \/ ServerStarts \/ AgentDies
  <2>1. held' \in BOOLEAN /\ up' \in BOOLEAN /\ stuck' \in BOOLEAN
    BY <1>0, <1>5, Zenon DEF ServerExits, ServerStarts, AgentDies, NodeOK
  <2>2. /\ busy' \in Jobs \cup {Nil}
        /\ UNCHANGED <<holding, world, first, last>>
    BY <1>0, <1>5 DEF ServerExits, ServerStarts, AgentDies, NodeOK
  <2> QED
    BY <1>0, <2>1, <2>2 DEF NodeOK
<1> QED
  BY <1>1, <1>2, <1>3, <1>4, <1>5
     DEF Next, vars, node, RouteTrigger, PinTrigger, SweepStart, Dispatch,
         Answer, Timeout, RouteSettle, SweepSettle, LinkBreaks

\* Every step keeps the types.
LEMMA TypeStep == TypeOK /\ [Next]_vars => TypeOK'
<1> SUFFICES ASSUME TypeOK, [Next]_vars PROVE TypeOK'
  OBVIOUS
<1>1. RecordsOK' /\ CallsOK' /\ NodeOK'
  BY RecordsStep, CallsStep, NodeStep
<1>2. alive' \in BOOLEAN /\ r2' \in BOOLEAN
  BY DEF TypeOK, Next, vars, RouteTrigger, PinTrigger, SweepStart, Dispatch,
         Answer, Timeout, RouteSettle, SweepSettle, BeginBackup, EndBackup,
         Save, ServerExits, ServerStarts, LinkBreaks, AgentDies
<1>3. bucket' \subseteq Jobs
  BY DEF TypeOK, Next, vars, RouteTrigger, PinTrigger, SweepStart, Dispatch,
         Answer, Timeout, RouteSettle, SweepSettle, BeginBackup, EndBackup,
         Save, ServerExits, ServerStarts, LinkBreaks, AgentDies
<1>4. faults' \in 0..MaxFaults
  BY BackupAssumption
     DEF TypeOK, Next, vars, RouteTrigger, PinTrigger, SweepStart, Dispatch,
         Answer, Timeout, RouteSettle, SweepSettle, BeginBackup, EndBackup,
         Save, ServerExits, ServerStarts, LinkBreaks, AgentDies, Fault
<1> QED
  BY <1>1, <1>2, <1>3, <1>4 DEF TypeOK

-----------------------------------------------------------------------------
(* Calls and their outcomes *)

\* What a sequence is after an element was appended, or its head taken.
LEMMA Appended ==
  ASSUME NEW S, NEW q \in Seq(S), NEW x \in S
  PROVE  /\ Len(q) \in Nat
         /\ Len(Append(q, x)) = Len(q) + 1
         /\ \A m \in 1..Len(q) : Append(q, x)[m] = q[m] /\ q[m] \in S
         /\ Append(q, x)[Len(q) + 1] = x
BY AppendProperties, ElementOfSeq, LenProperties

LEMMA Advanced ==
  ASSUME NEW S, NEW q \in Seq(S), q # <<>>
  PROVE  /\ Len(q) \in Nat \ {0}
         /\ Head(q) = q[1] /\ Head(q) \in S
         /\ Len(Tail(q)) = Len(q) - 1
         /\ \A m \in 1..Len(Tail(q)) : Tail(q)[m] = q[m + 1] /\ Tail(q)[m] \in S
<1>1. Len(q) \in Nat \ {0} /\ Len(Tail(q)) = Len(q) - 1 /\ Tail(q) \in Seq(S)
  BY HeadTailProperties, EmptySeq, LenProperties
<1>2. \A m \in 1..Len(Tail(q)) : Tail(q)[m] = q[m + 1]
  BY <1>1, HeadTailProperties
<1>3. \A m \in 1..Len(Tail(q)) : Tail(q)[m] \in S
  BY <1>1, ElementOfSeq
<1> QED
  BY <1>1, <1>2, <1>3, HeadTailProperties

\* Every step keeps the agent's queue free of duplicates and of jobs that
\* have an outcome.
LEMMA QueueStep == TypeOK /\ QueueInv /\ CallInv /\ [Next]_vars => QueueInv'
<1> SUFFICES ASSUME TypeOK, QueueInv, CallInv, [Next]_vars PROVE QueueInv'
  OBVIOUS
<1>0. /\ CallsOK
      /\ busy \in Jobs \cup {Nil}
      /\ Nil \notin Jobs
      /\ Len(queue) \in Nat
      /\ \A m \in 1..Len(queue) : queue[m] \in Jobs
  <2>1. CallsOK /\ busy \in Jobs \cup {Nil} /\ Nil \notin Jobs
    BY DEF TypeOK, NodeOK, Jobs, Nil
  <2>2. queue \in Seq(Jobs)
    BY <2>1 DEF CallsOK
  <2> QED
    BY <2>1, <2>2, ElementOfSeq, LenProperties
<1>1. CASE UNCHANGED <<calls, busy>>
  BY <1>1 DEF QueueInv, Sent, calls
<1>2. ASSUME NEW j \in Jobs, Dispatch(j), Tunnel!Issue(j), queue' = Append(queue, j)
      PROVE  QueueInv'
  <2>1. /\ Len(queue') = Len(queue) + 1
        /\ \A m \in 1..Len(queue) : queue'[m] = queue[m]
        /\ queue'[Len(queue) + 1] = j
    BY <1>0, <1>2, Appended DEF CallsOK
  <2>2. /\ call[j] = "none" /\ call' = [call EXCEPT ![j] = "waiting"]
        /\ effect' = effect /\ busy' = busy
    BY <1>2 DEF Tunnel!Issue, Dispatch, node
  <2>3. /\ \A m \in 1..Len(queue) : queue[m] # j
        /\ j # busy
    BY <1>0, <1>2, <2>2 DEF QueueInv, Sent
  <2>4. effect[j] = "none"
    BY <2>2 DEF CallInv
  <2>5. \A m \in 1..Len(queue') :
          /\ call'[queue'[m]] \in {"waiting", "rejected"}
          /\ effect'[queue'[m]] = "none"
          /\ queue'[m] # busy'
    BY <1>0, <2>1, <2>2, <2>3, <2>4 DEF QueueInv, Sent, CallsOK
  <2>6. \A m, n \in 1..Len(queue') : queue'[m] = queue'[n] => m = n
    BY <1>0, <2>1, <2>3 DEF QueueInv
  <2>7. busy' # Nil => /\ call'[busy'] \in {"waiting", "rejected"}
                       /\ effect'[busy'] = "none"
    BY <1>0, <2>2, <2>3 DEF QueueInv, Sent, CallsOK
  <2> QED
    BY <2>5, <2>6, <2>7 DEF QueueInv, Sent
<1>3. ASSUME NEW j \in Jobs, Dispatch(j), Tunnel!Divert(j), UNCHANGED queue
      PROVE  QueueInv'
  <2>1. /\ call[j] = "none" /\ call' = [call EXCEPT ![j] = "local"]
        /\ UNCHANGED <<effect, queue, busy>>
    BY <1>3 DEF Tunnel!Divert, Dispatch, node
  <2> QED
    BY <1>0, <2>1 DEF QueueInv, Sent, CallsOK
<1>4. ASSUME NEW j \in Jobs, Answer(j) \/ Timeout(j) PROVE QueueInv'
  <2>1. /\ UNCHANGED <<effect, queue, busy>>
        /\ \/ effect[j] # "none" /\ call' = [call EXCEPT ![j] = effect[j]]
           \/ call' = [call EXCEPT ![j] = "rejected"]
    BY <1>4 DEF Answer, Timeout, Tunnel!Answer, Tunnel!GiveUp, node
  <2> QED
    BY <1>0, <2>1 DEF QueueInv, Sent, CallsOK
<1>5. ASSUME NEW j \in Jobs, BeginBackup(j) PROVE QueueInv'
  <2>1. /\ Len(queue) \in Nat \ {0}
        /\ Len(queue') = Len(queue) - 1
        /\ \A m \in 1..Len(queue') : queue'[m] = queue[m + 1]
        /\ queue[1] = j
    BY <1>0, <1>5, Advanced DEF BeginBackup, CallsOK
  <2>2. /\ call' = call
        /\ \/ effect' = [effect EXCEPT ![j] = "failed"] /\ busy' = Nil
           \/ effect' = effect /\ busy' = j
    BY <1>5 DEF BeginBackup
  <2>3. Sent(j)
    BY <2>1 DEF QueueInv
  <2>4. \A m \in 1..Len(queue') : queue'[m] # j /\ Sent(queue'[m]) /\ queue'[m] \in Jobs
    BY <1>0, <2>1 DEF QueueInv
  <2>5. \A m \in 1..Len(queue') :
          /\ call'[queue'[m]] \in {"waiting", "rejected"}
          /\ effect'[queue'[m]] = "none"
          /\ queue'[m] # busy'
    BY <1>0, <2>2, <2>4 DEF Sent, CallsOK
  <2>6. \A m, n \in 1..Len(queue') : queue'[m] = queue'[n] => m = n
    BY <2>1 DEF QueueInv
  <2>7. busy' # Nil => /\ call'[busy'] \in {"waiting", "rejected"}
                       /\ effect'[busy'] = "none"
    BY <2>2, <2>3 DEF Sent
  <2> QED
    BY <2>5, <2>6, <2>7 DEF QueueInv, Sent
<1>6. ASSUME NEW j \in Jobs, EndBackup(j) PROVE QueueInv'
  <2>1. /\ UNCHANGED <<call, queue>>
        /\ busy = j /\ busy' = Nil
        /\ \A i \in Jobs : i # j => effect'[i] = effect[i]
    BY <1>0, <1>6 DEF EndBackup, CallsOK
  <2> QED
    BY <1>0, <2>1 DEF QueueInv, Sent
<1>7. CASE LinkBreaks \/ AgentDies
  <2>1. /\ queue' = <<>> /\ UNCHANGED <<call, effect>>
        /\ busy' \in {busy, Nil}
    BY <1>7 DEF LinkBreaks, AgentDies, node
  <2>2. Len(queue') = 0
    BY <2>1
  <2> QED
    BY <2>1, <2>2 DEF QueueInv, Sent
<1> QED
  BY <1>1, <1>2, <1>3, <1>4, <1>5, <1>6, <1>7
     DEF Next, vars, calls, node, RouteTrigger, PinTrigger, SweepStart,
         Dispatch, RouteSettle, SweepSettle, Save, ServerExits, ServerStarts

\* Every step keeps answers and outcomes in accord.
LEMMA CallStep == TypeOK /\ QueueInv /\ CallInv /\ [Next]_vars => CallInv'
<1> SUFFICES ASSUME TypeOK, QueueInv, CallInv, [Next]_vars PROVE CallInv'
  OBVIOUS
<1>0. CallsOK
  BY DEF TypeOK
<1>1. CASE UNCHANGED <<r2, call, effect, bucket>>
  BY <1>1 DEF CallInv
<1>2. ASSUME NEW j \in Jobs, Dispatch(j) PROVE CallInv'
  BY <1>0, <1>2 DEF Dispatch, Tunnel!Issue, Tunnel!Divert, CallInv, CallsOK
<1>3. ASSUME NEW j \in Jobs, Answer(j) \/ Timeout(j) PROVE CallInv'
  BY <1>0, <1>3
     DEF Answer, Timeout, Tunnel!Answer, Tunnel!GiveUp, CallInv, CallsOK
<1>4. ASSUME NEW j \in Jobs, BeginBackup(j) PROVE CallInv'
  <2>1. Sent(j)
    BY <1>0, <1>4 DEF BeginBackup, QueueInv, CallsOK
  <2> QED
    BY <1>0, <1>4, <2>1 DEF BeginBackup, Sent, CallInv, CallsOK
<1>5. ASSUME NEW j \in Jobs, EndBackup(j) PROVE CallInv'
  <2>1. Sent(j)
    BY <1>5 DEF EndBackup, QueueInv, Jobs, Nil
  <2>2. PICK outcome \in {"ok", "failed"}, stored \in BOOLEAN :
          /\ Archived(outcome, stored)
          /\ effect' = [effect EXCEPT ![j] = outcome]
          /\ bucket' = bucket \cup {k \in {j} : stored}
    BY <1>5 DEF EndBackup
  <2>3. r2' = r2 /\ call' = call
    BY <1>5 DEF EndBackup
  <2>4. r2 /\ outcome = "ok" => j \in bucket'
    BY <2>2 DEF Archived
  <2> QED
    BY <1>0, <2>1, <2>2, <2>3, <2>4 DEF Sent, CallInv, CallsOK
<1> QED
  BY <1>1, <1>2, <1>3, <1>4, <1>5
     DEF Next, vars, calls, RouteTrigger, PinTrigger, SweepStart, RouteSettle,
         SweepSettle, Save, ServerExits, ServerStarts, LinkBreaks, AgentDies

-----------------------------------------------------------------------------
(* Records, the hold and retention *)

\* What becomes of a record in one step, and of the stage of its function.
LEMMA RecordMoves ==
  ASSUME TypeOK, RecordInv, [Next]_vars, NEW i \in Jobs
  PROVE  /\ rec[i] \in {"COMPLETED", "FAILED", "pruned"} =>
              rec'[i] \in {rec[i], "pruned"}
         /\ rec'[i] = "COMPLETED" => rec[i] = "COMPLETED" \/ call[i] = "ok"
         /\ stage'[i] \in {"presign", "dispatch"} => rec'[i] \in {"RUNNING", "pruned"}
<1> DEFINE P == /\ rec[i] \in {"COMPLETED", "FAILED", "pruned"} =>
                     rec'[i] \in {rec[i], "pruned"}
                /\ rec'[i] = "COMPLETED" => rec[i] = "COMPLETED" \/ call[i] = "ok"
                /\ stage'[i] \in {"presign", "dispatch"} =>
                     rec'[i] \in {"RUNNING", "pruned"}
<1> SUFFICES P
  OBVIOUS
<1>0. RecordsOK
  BY DEF TypeOK
<1>1. CASE UNCHANGED records
  BY <1>1 DEF RecordInv, records
<1>2. ASSUME NEW j \in Jobs, RouteTrigger(j) \/ SweepStart(j) PROVE P
  <2>1. /\ rec[j] = "none"
        /\ rec' = [rec EXCEPT ![j] = "RUNNING"]
        /\ stage' = [stage EXCEPT ![j] = "presign"]
    BY <1>2 DEF RouteTrigger, SweepStart, Prepare, Create, Fresh
  <2> QED
    BY <1>0, <2>1 DEF RecordInv, RecordsOK
<1>3. ASSUME NEW j \in Jobs, PinTrigger(j) PROVE P
  <2>1. /\ rec[j] = "none"
        /\ rec' = [rec EXCEPT ![j] = "PENDING"]
        /\ stage' = stage
    BY <1>3 DEF PinTrigger, Create, Fresh
  <2> QED
    BY <1>0, <2>1 DEF RecordInv, RecordsOK
<1>4. ASSUME NEW j \in Jobs, Dispatch(j) PROVE P
  BY <1>0, <1>4 DEF Dispatch, RecordInv, RecordsOK
<1>5. ASSUME NEW j \in Jobs, RouteSettle(j) PROVE P
  <2>1. rec[j] \in {"RUNNING", "pruned"}
    BY <1>5 DEF RouteSettle, Resolved, RecordInv
  <2>2. \/ rec[j] # "pruned" /\ rec' = Finalised(j)
        \/ rec' = rec
    BY <1>5 DEF RouteSettle
  <2>3. \E t \in {"over", "threw"} : stage' = [stage EXCEPT ![j] = t]
    BY <1>5 DEF RouteSettle
  <2> QED
    BY <1>0, <2>1, <2>2, <2>3 DEF Finalised, RecordInv, RecordsOK
<1>6. ASSUME NEW j \in Jobs, SweepSettle(j) PROVE P
  <2>1. rec[j] \in {"RUNNING", "pruned"}
    BY <1>6 DEF SweepSettle, Resolved, RecordInv
  <2>2. CASE rec' = rec /\ stage' = [stage EXCEPT ![j] = "threw"]
    BY <1>0, <2>2 DEF RecordInv, RecordsOK
  <2>3. CASE rec[j] # "pruned"
    <3> DEFINE kept == Retained(Finalised(j), of[j])
               next == {k \in Jobs : HasNext(j) /\ Fresh(k)}
    <3>1. /\ rec'[i] = IF i \in next THEN "RUNNING" ELSE kept[i]
          /\ stage'[i] = IF i \in next THEN "presign"
                          ELSE [stage EXCEPT ![j] = "over"][i]
      BY <1>6, <2>3 DEF SweepSettle
    <3>2. i \in next => rec[i] = "none"
      BY DEF Fresh
    <3>3. kept[i] \in {Finalised(j)[i], "pruned"}
      BY RetainedType
    <3>4. Finalised(j)[i] = IF i = j THEN IF call[j] = "ok" THEN "COMPLETED" ELSE "FAILED"
                            ELSE rec[i]
      BY <1>0 DEF Finalised, RecordsOK
    <3>5. [stage EXCEPT ![j] = "over"][i] = IF i = j THEN "over" ELSE stage[i]
      BY <1>0 DEF RecordsOK
    <3> HIDE DEF kept, next
    <3> QED
      BY <2>1, <2>3, <3>1, <3>2, <3>3, <3>4, <3>5 DEF RecordInv
  <2> QED
    BY <1>6, <2>2, <2>3 DEF SweepSettle
<1> QED
  BY <1>1, <1>2, <1>3, <1>4, <1>5, <1>6
     DEF Next, vars, records, Answer, Timeout, BeginBackup, EndBackup, Save,
         ServerExits, ServerStarts, LinkBreaks, AgentDies

\* A call that was answered "ok" stays so.
LEMMA OkStays ==
  ASSUME TypeOK, [Next]_vars, NEW i \in Jobs, call[i] = "ok"
  PROVE  call'[i] = "ok"
BY DEF TypeOK, CallsOK, Next, vars, calls, RouteTrigger, PinTrigger, SweepStart,
       Dispatch, Tunnel!Issue, Tunnel!Divert, Answer, Tunnel!Answer, Timeout,
       Tunnel!GiveUp, RouteSettle, SweepSettle, BeginBackup, EndBackup, Save,
       ServerExits, ServerStarts, LinkBreaks, AgentDies

\* Every step keeps the records in accord with the answers.
LEMMA RecordStep == TypeOK /\ RecordInv /\ [Next]_vars => RecordInv'
BY RecordMoves, OkStays DEF RecordInv, Jobs

\* A hold outlives the backup that asked for it only with a cause, and the
\* world does not change under it.
Hold == HoldInv /\ HeldIsWhole /\ HeldHasCause

\* Every step keeps what the invariant says of holds.
LEMMA HoldStep == TypeOK /\ QueueInv /\ Hold /\ [Next]_vars => Hold'
<1> SUFFICES ASSUME TypeOK, QueueInv, Hold, [Next]_vars PROVE Hold'
  OBVIOUS
<1> USE DEF Hold, HoldInv, HeldIsWhole, HeldHasCause
<1>0. NodeOK /\ CallsOK /\ Nil \notin Jobs
  BY DEF TypeOK, Jobs, Nil
<1>1. CASE UNCHANGED <<node, effect>>
  BY <1>1 DEF node
<1>2. ASSUME NEW j \in Jobs, BeginBackup(j) PROVE Hold'
  <2>1. /\ busy = Nil /\ UNCHANGED <<up, world, last>>
        /\ \/ /\ effect' = [effect EXCEPT ![j] = "failed"]
              /\ UNCHANGED <<busy, holding, held, first, stuck>>
           \/ /\ busy' = j /\ first' = [first EXCEPT ![j] = world]
              /\ effect' = effect
              /\ \E o \in {FALSE, up} : \E a \in {FALSE, o} :
                   /\ holding' = [holding EXCEPT ![j] = a]
                   /\ held' = (held \/ o)
                   /\ stuck' = (stuck \/ (o /\ ~a))
    BY <1>2 DEF BeginBackup
  <2>2. effect[j] = "none"
    BY <1>0, <1>2, Advanced DEF BeginBackup, QueueInv, Sent, CallsOK
  <2>3. HoldInv'
    BY <1>0, <2>1 DEF NodeOK
  <2>4. HeldIsWhole'
    BY <1>0, <2>1, <2>2 DEF NodeOK, CallsOK
  <2>5. HeldHasCause'
    BY <1>0, <2>1 DEF NodeOK
  <2> QED
    BY <2>3, <2>4, <2>5
<1>3. ASSUME NEW j \in Jobs, EndBackup(j) PROVE Hold'
  <2>1. /\ busy = j /\ busy' = Nil
        /\ last' = [last EXCEPT ![j] = world]
        /\ UNCHANGED <<first, holding>>
        /\ \E o \in {"ok", "failed"} : effect' = [effect EXCEPT ![j] = o]
        /\ stuck' = (held' /\ (stuck \/ holding[j]))
        /\ held' => held
    BY <1>3 DEF EndBackup
  <2>2. HoldInv'
    BY <2>1
  <2>3. HeldIsWhole'
    BY <1>0, <2>1 DEF NodeOK, CallsOK
  <2>4. HeldHasCause'
    BY <1>0, <2>1 DEF NodeOK
  <2> QED
    BY <2>2, <2>3, <2>4
<1>4. CASE Save
  BY <1>0, <1>4 DEF Save, NodeOK, calls
<1>5. CASE ServerExits \/ ServerStarts
  BY <1>0, <1>5 DEF ServerExits, ServerStarts, NodeOK, calls
<1>6. CASE AgentDies
  BY <1>0, <1>6 DEF AgentDies, NodeOK
<1> QED
  BY <1>1, <1>2, <1>3, <1>4, <1>5, <1>6
     DEF Next, vars, node, calls, RouteTrigger, PinTrigger, SweepStart, Dispatch,
         Answer, Tunnel!Answer, Timeout, Tunnel!GiveUp, Tunnel!Issue,
         Tunnel!Divert, RouteSettle, SweepSettle, LinkBreaks

\* The backups of a server only grow in number, records pruned or not.
Made(i) == {k \in Jobs : of[k] = of[i] /\ k > i}

\* Every step leaves Keep newer backups for every record it prunes.
LEMMA KeptStep == TypeOK /\ RecordInv /\ NewestAreKept /\ [Next]_vars => NewestAreKept'
<1> SUFFICES ASSUME TypeOK, RecordInv, NewestAreKept, [Next]_vars,
                    NEW i \in Jobs, rec'[i] = "pruned"
             PROVE  Cardinality(Made(i)') >= Keep
  BY DEF NewestAreKept, Made
<1>0. RecordsOK /\ IsFiniteSet(Jobs)
  BY BackupAssumption, FS_Interval DEF TypeOK, Jobs
<1>1. \A k \in Jobs : of[k] # Nil => of'[k] = of[k]
  BY <1>0
     DEF RecordsOK, Next, vars, records, RouteTrigger, PinTrigger, SweepStart,
         Prepare, Create, Fresh, Dispatch, Answer, Timeout, RouteSettle,
         SweepSettle, BeginBackup, EndBackup, Save, ServerExits, ServerStarts,
         LinkBreaks, AgentDies
<1>2. ASSUME of[i] # Nil PROVE Made(i) \subseteq Made(i)'
  BY <1>1, <1>2 DEF Made
<1>3. ASSUME NEW S, S \subseteq Made(i)'
      PROVE  /\ Cardinality(S) \in Nat
             /\ Cardinality(Made(i)') \in Nat
             /\ Cardinality(S) <= Cardinality(Made(i)')
  <2>1. IsFiniteSet(Made(i)')
    <3>1. Made(i)' \subseteq Jobs
      BY DEF Made, Jobs
    <3> QED
      BY <1>0, <3>1, FS_Subset
  <2> QED
    BY <1>3, <2>1, FS_Subset, FS_CardinalityType
<1>4. CASE rec[i] = "pruned"
  <2>1. Made(i) \subseteq Made(i)'
    BY <1>0, <1>2, <1>4 DEF RecordsOK
  <2>2. Cardinality(Made(i)) >= Keep
    BY <1>4 DEF NewestAreKept, Made
  <2> QED
    BY <1>3, <2>1, <2>2, BackupAssumption
<1>5. CASE rec[i] # "pruned"
  <2>1. PICK j \in Jobs : SweepSettle(j)
    BY <1>0, <1>5
       DEF RecordsOK, Next, vars, records, RouteTrigger, PinTrigger, SweepStart,
           Prepare, Create, Dispatch, Answer, Timeout, RouteSettle, Finalised,
           BeginBackup, EndBackup, Save, ServerExits, ServerStarts, LinkBreaks,
           AgentDies
  <2> DEFINE done == Finalised(j)
  <2>2. Retained(done, of[j])[i] = "pruned"
    BY <1>5, <2>1 DEF SweepSettle
  <2>3. done[i] # "pruned"
    BY <1>0, <1>5 DEF Finalised, RecordsOK
  <2>4. i \in Listed(done, of[j]) /\ Cardinality(Newer(done, i)) >= Keep
    BY <2>2, <2>3, RetainedType
  <2>5. of[i] # Nil
    BY <1>0, <2>1, <2>4 DEF Listed, SweepSettle, RecordsOK
  <2>6. Newer(done, i) \subseteq Made(i)'
    BY <1>2, <2>5 DEF Newer, Listed, Made
  <2> QED
    BY <1>3, <2>4, <2>6, BackupAssumption
<1> QED
  BY <1>4, <1>5

-----------------------------------------------------------------------------
(* Theorems *)

\* The invariant holds in every reachable state.
THEOREM BackupInvariant == Spec => []IInv
<1>1. IInv /\ [Next]_vars => IInv'
  <2> SUFFICES ASSUME IInv, [Next]_vars PROVE IInv'
    OBVIOUS
  <2>1. TypeOK' /\ QueueInv' /\ CallInv' /\ RecordInv'
    BY TypeStep, QueueStep, CallStep, RecordStep DEF IInv
  <2>2. Hold' /\ NewestAreKept'
    BY HoldStep, KeptStep DEF IInv, Hold
  <2>3. CompletedIsTrue'
    BY <2>1 DEF CallInv, RecordInv, CompletedIsTrue
  <2> QED
    BY <2>1, <2>2, <2>3 DEF IInv, Hold
<1> QED
  BY <1>1, InitIInv, PTL DEF Spec

\* The state keeps its types.
THEOREM BackupTypes == Spec => []TypeOK
BY BackupInvariant, PTL DEF IInv

\* A COMPLETED record tells the truth: whatever is lost, late, retried or
\* pruned, the agent reported that very backup done, and with R2 its archive
\* is stored.
THEOREM CompletedTellsTrue == Spec => []CompletedIsTrue
BY BackupInvariant, PTL DEF IInv

\* Retention leaves at least Keep newer backups of the same server for every
\* record it removes, with any number of sweeps at a time.
THEOREM RetentionKeepsNewest == Spec => []NewestAreKept
BY BackupInvariant, PTL DEF IInv

\* The world does not change under an archive taken with a hold.
THEOREM HeldArchiveIsWhole == Spec => []HeldIsWhole
BY BackupInvariant, PTL DEF IInv

\* A world is left held only by a failed resume, a dead agent or a hold that was
\* obeyed while its answer did not come.
THEOREM NoHoldForNothing == Spec => []HeldHasCause
BY BackupInvariant, PTL DEF IInv

\* A finished record never changes again but for being pruned.
THEOREM FinishedStays == Spec => FinishedIsFinal
<1>1. IInv /\ [Next]_vars =>
        [\A j \in Jobs : (rec[j] \in {"COMPLETED", "FAILED", "pruned"}) =>
           rec'[j] \in {rec[j], "pruned"}]_vars
  BY RecordMoves DEF IInv
<1> QED
  BY <1>1, BackupInvariant, PTL DEF Spec, FinishedIsFinal

-----------------------------------------------------------------------------
(* Backups and the tunnel *)

\* A step of backups is a step, or a stutter, of remote calls.
LEMMA CallsRefine == IInv /\ [Next]_vars => [Tunnel!RNext]_(Tunnel!rvars)
<1> SUFFICES ASSUME IInv, [Next]_vars PROVE [Tunnel!RNext]_(Tunnel!rvars)
  OBVIOUS
<1> USE DEF Tunnel!RNext, Tunnel!rvars
<1>0. CallsOK
  BY DEF IInv, TypeOK
<1>1. ASSUME NEW j \in Jobs, Dispatch(j) PROVE Tunnel!RNext
  BY <1>1 DEF Dispatch
<1>2. ASSUME NEW j \in Jobs, Answer(j) \/ Timeout(j) PROVE Tunnel!RNext
  BY <1>2 DEF Answer, Timeout
<1>3. ASSUME NEW j \in Jobs, Sent(j), UNCHANGED call,
             NEW o \in {"ok", "failed"}, effect' = [effect EXCEPT ![j] = o]
      PROVE  Tunnel!RNext
  BY <1>3 DEF Sent, Tunnel!CarryOut, Tunnel!Answers
<1>4. ASSUME NEW j \in Jobs, BeginBackup(j) PROVE Tunnel!RNext \/ UNCHANGED <<call, effect>>
  <2>1. Sent(j)
    BY <1>0, <1>4, Advanced DEF BeginBackup, IInv, QueueInv, CallsOK
  <2> QED
    BY <1>3, <1>4, <2>1 DEF BeginBackup
<1>5. ASSUME NEW j \in Jobs, EndBackup(j) PROVE Tunnel!RNext
  <2>1. Sent(j)
    BY <1>5 DEF EndBackup, IInv, QueueInv, Jobs, Nil
  <2> QED
    BY <1>3, <1>5, <2>1 DEF EndBackup
<1>6. ASSUME UNCHANGED <<call, effect>> PROVE UNCHANGED Tunnel!rvars
  BY <1>6
<1> HIDE DEF Tunnel!RNext
<1> QED
  BY <1>1, <1>2, <1>4, <1>5, <1>6
     DEF Next, vars, calls, RouteTrigger, PinTrigger, SweepStart, RouteSettle,
         SweepSettle, Save, ServerExits, ServerStarts, LinkBreaks, AgentDies

\* Backups use the tunnel only as RemoteCall, which AgentTunnel implements,
\* allows, and are promised no more by it.
THEOREM BackupsCallRemotely == Spec => BackupsAreRemoteCalls
<1>1. Init => Tunnel!RInit
  BY DEF Init
<1> QED
  BY <1>1, CallsRefine, BackupInvariant, PTL
     DEF Spec, BackupsAreRemoteCalls, Tunnel!RSpec

=============================================================================
