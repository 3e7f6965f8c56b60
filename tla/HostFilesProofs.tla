--------------------------- MODULE HostFilesProofs ----------------------------
(***************************************************************************)
(* Theorems about the files on a host and what is kept in memory about     *)
(* who plays there (modules WorldFiles and Players).                       *)
(*                                                                         *)
(* World files.  Whole archives and whole restores, for any number of      *)
(* files, writes, backups and deaths of the agent.  StoredIsWhole needs    *)
(* that files never vanish and that what a walk has passed is in its pipe; *)
(* RestoredIsArchive needs the same of the entries an extraction has       *)
(* passed, and that no archive in the bucket is ever replaced.             *)
(*                                                                         *)
(* Players.  Both windows forget entries, and both properties speak of all *)
(* there ever were.  The bridge is Forgotten: what a filter dropped is     *)
(* older than the window, and time only passes.  LimitIsExact needs besides *)
(* that a limiter which refused is full to the limit, with the hit it      *)
(* named as its oldest (RefusedInv).  QuietIsLoaded needs to know where    *)
(* every command is: WriteInv and ReloadInv put it in one place of wire,   *)
(* writer and answers, with its route waiting, and ReloadComes says that a *)
(* list on disk the game server has not read has its reload before it.     *)
(***************************************************************************)
EXTENDS WorldFiles, Players, SequenceTheorems, FiniteSetTheorems,
        WellFoundedInduction, TLAPS

-----------------------------------------------------------------------------
(* World files.                                                             *)

World == [Files -> Content]

Task ==
  [command : {"none", "backup", "restore"}, of : NoObject..MaxBackups, at : 0..NumFiles + 1]

Types ==
  /\ disk \in World /\ version \in 0..MaxVersion
  /\ busy \in Task
  /\ producer \in [Backups -> {"none", "walking", "broken", "eof"}]
  /\ next \in [Backups -> 1..NumFiles + 1]
  /\ piped \in [Backups -> World]
  /\ DOMAIN bucket \subseteq Backups \cup {Foreign}
  /\ \A o \in DOMAIN bucket : bucket[o] \in World
  /\ had \in [Backups -> SUBSET Files] /\ since \subseteq Files

\* The archive of b is being produced, or has been and is waited for.
InPipe(b) ==
  producer[b] = "walking" \/ (producer[b] = "eof" /\ busy.command = "backup" /\ busy.of = b)

\* Files do not vanish; those a walk has passed are in its pipe.
WalkInv ==
  \A b \in Backups :
    /\ \A f \in had[b] : disk[f] # Absent
    /\ producer[b] = "none" => next[b] = 1
    /\ producer[b] = "eof" => next[b] = NumFiles + 1
    /\ InPipe(b) => \A f \in had[b] : f < next[b] => piped[b][f] # Absent

\* An archive comes into the bucket once, and its backup has ended.
BucketInv ==
  /\ \A b \in Backups \cap DOMAIN bucket :
       producer[b] # "none" /\ ~(busy.command = "backup" /\ busy.of = b)
  /\ busy.command = "backup" => busy.of \in Backups /\ producer[busy.of] # "none"
  /\ restored # NoObject => restored \in DOMAIN bucket /\ busy.command # "restore"

\* Entries that were extracted are as they were archived.
ExtractInv ==
  busy.command = "restore" =>
    /\ busy.of \in DOMAIN bucket /\ busy.at # 0
    /\ \A f \in Files \ since :
         f < busy.at /\ bucket[busy.of][f] # Absent => disk[f] = bucket[busy.of][f]

IInv ==
  /\ Types
  /\ WalkInv
  /\ BucketInv
  /\ ExtractInv
  /\ StoredIsWhole
  /\ RestoredIsArchive

\* A world with one file that is being run; nothing was archived but elsewhere.
LEMMA InitIInv == Init => IInv
BY WorldFilesAssumption
   DEF Init, IInv, Types, World, Task, Idle, Nothing, Content, Files, Backups, Foreign, Absent,
       Torn, NoObject, WalkInv, InPipe, BucketInv, ExtractInv, StoredIsWhole, RestoredIsArchive

-----------------------------------------------------------------------------
(* The server process, the connection *)

\* A file that was written is there, and was written since.
LEMMA SaveStep ==
  ASSUME IInv, NEW f \in Files, Save(f)
  PROVE  IInv'
<1> USE DEF IInv
<1>1. /\ version \in Nat /\ version + 1 \in Content /\ version + 1 # Absent /\ version' \in 0..MaxVersion
      /\ disk' = [disk EXCEPT ![f] = version + 1] /\ since' = since \cup {f}
      /\ UNCHANGED <<busy, stream, bucket, had, restored>>
  BY WorldFilesAssumption DEF Save, Types, Content, Absent
<1>2. disk' \in World /\ disk'[f] # Absent /\ \A g \in Files \ {f} : disk'[g] = disk[g]
  BY <1>1 DEF Types, World
<1>3. Types'
  BY <1>1, <1>2 DEF Types, stream
<1>4. WalkInv'
  BY <1>1, <1>2 DEF WalkInv, InPipe, stream, Types
<1>5. BucketInv' /\ StoredIsWhole'
  BY <1>1 DEF BucketInv, StoredIsWhole, stream
<1>6. ExtractInv' /\ RestoredIsArchive'
  BY <1>1, <1>2 DEF ExtractInv, RestoredIsArchive
<1> QED
  BY <1>3, <1>4, <1>5, <1>6

\* What concerns no file.
LEMMA OtherStep ==
  ASSUME IInv, UNCHANGED <<disk, version, busy, stream, bucket, history>>
  PROVE  IInv'
BY DEF IInv, Types, WalkInv, InPipe, BucketInv, ExtractInv, StoredIsWhole, RestoredIsArchive,
       stream, history

-----------------------------------------------------------------------------
(* Archives *)

\* A walk begins at the first file and owes those there are.
LEMMA BeginStep ==
  ASSUME IInv, NEW b \in Backups, BackupBegins(b)
  PROVE  IInv'
<1> USE DEF IInv
<1>1. /\ producer[b] = "none" /\ busy = Idle
      /\ busy' = [command |-> "backup", of |-> b, at |-> 0]
      /\ producer' = [producer EXCEPT ![b] = "walking"]
      /\ had' = [had EXCEPT ![b] = Present]
      /\ UNCHANGED <<disk, version, next, piped, bucket, restored, since>>
  BY DEF BackupBegins
<1>2. busy.command = "none" /\ busy'.command = "backup" /\ busy'.of = b /\ busy' \in Task
  BY <1>1, WorldFilesAssumption DEF Idle, Task, Backups, NoObject
<1>3. /\ producer'[b] = "walking" /\ had'[b] = Present /\ next[b] = 1
      /\ producer' \in [Backups -> {"none", "walking", "broken", "eof"}]
      /\ had' \in [Backups -> SUBSET Files]
      /\ \A o \in Backups \ {b} : producer'[o] = producer[o] /\ had'[o] = had[o]
  BY <1>1 DEF Types, Present, WalkInv
<1>4. Types'
  BY <1>1, <1>2, <1>3 DEF Types
<1>5. WalkInv'
  <2>1. ASSUME NEW o \in Backups \ {b} PROVE InPipe(o)' => InPipe(o)
    BY <1>2, <1>3, <2>1 DEF InPipe
  <2>2. \A f \in Files : ~(f < 1)
    BY DEF Files
  <2> QED
    BY <1>1, <1>3, <2>1, <2>2 DEF WalkInv, Present
<1>6. BucketInv' /\ b \notin DOMAIN bucket
  BY <1>1, <1>2, <1>3 DEF BucketInv
<1>7. ExtractInv' /\ RestoredIsArchive'
  BY <1>1, <1>2 DEF ExtractInv, RestoredIsArchive
<1>8. StoredIsWhole'
  BY <1>1, <1>3, <1>6 DEF StoredIsWhole
<1> QED
  BY <1>4, <1>5, <1>6, <1>7, <1>8

\* The goroutine puts the next file into its pipe, breaks off, or is through.
LEMMA ProducerStep ==
  ASSUME IInv, NEW b \in Backups, Producer(b)
  PROVE  IInv'
<1> USE DEF IInv
<1>1. UNCHANGED <<disk, version, busy, bucket, had, restored, since>>
  BY DEF Producer, history
<1>2. /\ producer[b] = "walking" /\ producer'[b] # "none"
      /\ producer' \in [Backups -> {"none", "walking", "broken", "eof"}]
      /\ next' \in [Backups -> 1..NumFiles + 1]
      /\ piped' \in [Backups -> World]
      /\ \A o \in Backups \ {b} : producer'[o] = producer[o] /\ next'[o] = next[o] /\ piped'[o] = piped[o]
      /\ producer'[b] = "eof" => next'[b] = NumFiles + 1
      /\ producer'[b] # "broken" => \A f \in had[b] : f < next'[b] => piped'[b][f] # Absent
  <2>1. CASE WalkFile(b)
    <3>1. /\ producer[b] = "walking" /\ UNCHANGED producer
          /\ next[b] \in Files /\ next' = [next EXCEPT ![b] = next[b] + 1]
          /\ piped' = [piped EXCEPT ![b] = [piped[b] EXCEPT ![next[b]] = disk[next[b]]]]
      BY <2>1 DEF WalkFile, Types
    <3>2. next[b] + 1 \in 1..NumFiles + 1 /\ next[b] \in Int
      BY <3>1, WorldFilesAssumption DEF Files
    <3>3. [piped[b] EXCEPT ![next[b]] = disk[next[b]]] \in World
      BY <3>1 DEF Types, World
    <3>4. /\ next' \in [Backups -> 1..NumFiles + 1] /\ piped' \in [Backups -> World]
          /\ next'[b] = next[b] + 1 /\ piped'[b] = [piped[b] EXCEPT ![next[b]] = disk[next[b]]]
          /\ \A o \in Backups \ {b} : next'[o] = next[o] /\ piped'[o] = piped[o]
      BY <3>1, <3>2, <3>3 DEF Types
    <3>5. ASSUME NEW f \in had[b], f < next[b] + 1 PROVE piped'[b][f] # Absent
      <4>1. f \in Files /\ f \in Int /\ disk[f] # Absent
        BY DEF Types, Files, WalkInv
      <4>2. piped[b] \in World
        BY DEF Types
      <4>3. CASE f = next[b]
        BY <3>1, <3>4, <4>1, <4>2, <4>3 DEF World
      <4>4. CASE f < next[b]
        <5>1. piped[b][f] # Absent
          BY <3>1, <4>4 DEF WalkInv, InPipe
        <5> QED
          BY <3>1, <3>2, <3>4, <4>1, <4>2, <4>4, <5>1 DEF World
      <4> QED
        BY <3>2, <3>5, <4>1, <4>3, <4>4
    <3> QED
      BY <3>1, <3>4, <3>5 DEF Types
  <2>2. CASE WalkBreaks(b)
    <3>1. Nothing \in World
      BY WorldFilesAssumption DEF Nothing, World, Content, Absent
    <3> QED
      BY <2>2, <3>1 DEF WalkBreaks, Types
  <2>3. CASE WalkEnds(b)
    <3>1. next[b] = NumFiles + 1
      BY <2>3, WorldFilesAssumption DEF WalkEnds, Files, Types
    <3> QED
      BY <2>3, <3>1 DEF WalkEnds, Types, WalkInv, InPipe
  <2> QED
    BY <2>1, <2>2, <2>3 DEF Producer
<1>3. Types'
  BY <1>1, <1>2 DEF Types
<1>4. WalkInv'
  <2>1. ASSUME NEW o \in Backups \ {b} PROVE InPipe(o)' <=> InPipe(o)
    BY <1>1, <1>2 DEF InPipe
  <2>2. InPipe(b)' => producer'[b] # "broken"
    BY DEF InPipe
  <2> QED
    BY <1>1, <1>2, <2>1, <2>2 DEF WalkInv
<1>5. BucketInv' /\ ExtractInv' /\ StoredIsWhole' /\ RestoredIsArchive'
  BY <1>1, <1>2 DEF BucketInv, ExtractInv, StoredIsWhole, RestoredIsArchive
<1> QED
  BY <1>3, <1>4, <1>5

\* The archive that comes into the bucket is what the whole walk put into its pipe.
LEMMA EndStep ==
  ASSUME IInv, NEW b \in Backups, ArchiveEnds(b)
  PROVE  IInv'
<1> USE DEF IInv
<1>1. /\ busy.command = "backup" /\ busy.of = b /\ producer[b] = "eof"
      /\ busy' = Idle /\ piped' = [piped EXCEPT ![b] = Nothing]
      /\ \/ bucket' = [o \in DOMAIN bucket \cup {b} |-> IF o = b THEN piped[b] ELSE bucket[o]]
         \/ bucket' = bucket
      /\ UNCHANGED <<disk, version, producer, next, had, restored, since>>
  BY DEF ArchiveEnds, history
<1>2. busy'.command = "none" /\ busy' \in Task
  BY <1>1, WorldFilesAssumption DEF Idle, Task, NoObject
<1>3. b \notin DOMAIN bucket /\ piped[b] \in World
  BY <1>1 DEF BucketInv, Types
<1>4. /\ DOMAIN bucket' \subseteq DOMAIN bucket \cup {b}
      /\ \A o \in DOMAIN bucket : o \in DOMAIN bucket' /\ bucket'[o] = bucket[o]
      /\ b \in DOMAIN bucket' => bucket'[b] = piped[b]
  BY <1>1, <1>3
<1>5. piped' \in [Backups -> World]
  BY <1>1, WorldFilesAssumption DEF Types, Nothing, World, Content, Absent
<1>6. Types'
  BY <1>1, <1>2, <1>3, <1>4, <1>5 DEF Types
<1>7. WalkInv'
  <2>1. ASSUME NEW o \in Backups PROVE InPipe(o)' => o # b /\ InPipe(o)
    BY <1>1, <1>2 DEF InPipe
  <2>2. \A o \in Backups \ {b} : piped'[o] = piped[o]
    BY <1>1 DEF Types
  <2> QED
    BY <1>1, <2>1, <2>2 DEF WalkInv
<1>8. BucketInv'
  BY <1>1, <1>2, <1>3, <1>4 DEF BucketInv
<1>9. ExtractInv' /\ RestoredIsArchive'
  BY <1>1, <1>2, <1>4 DEF ExtractInv, RestoredIsArchive, BucketInv
<1>10. StoredIsWhole'
  <2>1. ASSUME NEW f \in had[b] PROVE piped[b][f] # Absent
    <3>1. f < next[b]
      BY <1>1, WorldFilesAssumption DEF WalkInv, Types, Files
    <3> QED
      BY <1>1, <3>1 DEF WalkInv, InPipe
  <2> QED
    BY <1>1, <1>4, <2>1 DEF StoredIsWhole
<1> QED
  BY <1>6, <1>7, <1>8, <1>9, <1>10

\* A backup that fails leaves the bucket as it was.
LEMMA FailStep ==
  ASSUME IInv, NEW b \in Backups, ArchiveFails(b)
  PROVE  IInv'
<1> USE DEF IInv
<1>1. /\ busy' = Idle
      /\ UNCHANGED <<disk, version, producer, next, piped, bucket, had, restored, since>>
  BY DEF ArchiveFails, history
<1>2. busy'.command = "none" /\ busy' \in Task
  BY <1>1, WorldFilesAssumption DEF Idle, Task, NoObject
<1>3. Types' /\ BucketInv' /\ ExtractInv' /\ StoredIsWhole' /\ RestoredIsArchive'
  BY <1>1, <1>2 DEF Types, BucketInv, ExtractInv, StoredIsWhole, RestoredIsArchive
<1>4. WalkInv'
  BY <1>1, <1>2 DEF WalkInv, InPipe
<1> QED
  BY <1>3, <1>4

-----------------------------------------------------------------------------
(* Restores *)

\* A restore is of an archive in the bucket.
LEMMA RestoreStep ==
  ASSUME IInv, NEW b \in Backups, RestoreRoute(b)
  PROVE  IInv'
<1> USE DEF IInv
<1>1. PICK o \in DOMAIN bucket :
        /\ busy' = [command |-> "restore", of |-> o, at |-> 1]
        /\ restored' = NoObject /\ since' = {}
        /\ UNCHANGED <<disk, version, producer, next, piped, bucket, had>>
        /\ busy = Idle
  BY DEF RestoreRoute, RestoreBegins, stream
<1>2. busy'.command = "restore" /\ busy'.of = o /\ busy'.at = 1 /\ busy' \in Task
  BY <1>1, WorldFilesAssumption DEF Task, NoObject, Types, Backups, Foreign
<1>3. Types' /\ BucketInv' /\ StoredIsWhole' /\ RestoredIsArchive'
  BY <1>1, <1>2 DEF Types, BucketInv, StoredIsWhole, RestoredIsArchive
<1>4. ExtractInv'
  <2>1. \A f \in Files : ~(f < 1)
    BY DEF Files
  <2> QED
    BY <1>1, <1>2, <2>1 DEF ExtractInv
<1>5. WalkInv'
  BY <1>1, <1>2 DEF WalkInv, InPipe, Idle
<1> QED
  BY <1>3, <1>4, <1>5

\* An entry is extracted.
LEMMA ExtractStep ==
  ASSUME IInv, NEW f \in Files, Extract(f)
  PROVE  IInv'
<1> USE DEF IInv
<1> DEFINE content == bucket[busy.of][f]
<1>1. /\ busy.command = "restore" /\ busy.at = f
      /\ busy' = [busy EXCEPT !.at = busy.at + 1]
      /\ disk' = IF content = Absent THEN disk ELSE [disk EXCEPT ![f] = content]
      /\ since' = IF content = Absent THEN since ELSE since \ {f}
      /\ UNCHANGED <<version, producer, next, piped, bucket, had, restored>>
  BY DEF Extract, Extracting, stream
<1>2. /\ busy'.command = "restore" /\ busy'.of = busy.of /\ busy'.at = f + 1 /\ busy' \in Task
      /\ f \in Int
  BY <1>1, WorldFilesAssumption DEF Types, Task, Files
<1>3. busy.of \in DOMAIN bucket /\ content \in Content
  BY <1>1 DEF ExtractInv, Types, World
<1>4. /\ disk' \in World /\ \A g \in Files \ {f} : disk'[g] = disk[g]
      /\ disk'[f] # Absent \/ disk'[f] = disk[f]
      /\ content # Absent => disk'[f] = content
      /\ content = Absent => disk'[f] = disk[f]
  BY <1>1, <1>3 DEF Types, World
<1>5. Types'
  BY <1>1, <1>2, <1>4 DEF Types
<1>6. WalkInv'
  <2>1. \A b \in Backups : InPipe(b)' => InPipe(b)
    BY <1>1, <1>2 DEF InPipe
  <2>2. \A g \in Files : disk[g] # Absent => disk'[g] # Absent
    BY <1>4
  <2> QED
    BY <1>1, <2>1, <2>2 DEF WalkInv, Types
<1>7. BucketInv' /\ StoredIsWhole' /\ RestoredIsArchive'
  BY <1>1, <1>2 DEF BucketInv, StoredIsWhole, RestoredIsArchive
<1>8. ExtractInv'
  <2>1. ASSUME NEW g \in Files \ since', g < f + 1, bucket[busy.of][g] # Absent
        PROVE  disk'[g] = bucket[busy.of][g]
    <3>1. CASE g = f
      BY <1>4, <2>1, <3>1
    <3>2. CASE g # f
      <4>1. g < f /\ g \notin since
        BY <1>1, <1>2, <2>1, <3>2 DEF Files
      <4> QED
        BY <1>1, <1>4, <2>1, <3>2, <4>1 DEF ExtractInv
    <3> QED
      BY <3>1, <3>2
  <2>2. f + 1 # 0
    BY DEF Files
  <2> QED
    BY <1>1, <1>2, <1>3, <2>1, <2>2 DEF ExtractInv
<1> QED
  BY <1>5, <1>6, <1>7, <1>8

\* What was being extracted, or nothing, is torn.
LEMMA TornStep ==
  ASSUME IInv,
         \/ disk' = disk
         \/ busy.command = "restore" /\ \E f \in Files : disk' = [disk EXCEPT ![f] = Torn],
         busy' = Idle,
         \/ UNCHANGED <<producer, piped>>
         \/ /\ producer' = [b \in Backups |-> IF producer[b] = "none" THEN "none" ELSE "broken"]
            /\ piped' = [b \in Backups |-> Nothing],
         UNCHANGED <<version, next, bucket, had, restored, since>>
  PROVE  IInv'
<1> USE DEF IInv
<1>1. busy'.command = "none" /\ busy' \in Task
  BY WorldFilesAssumption DEF Idle, Task, NoObject
<1>2. disk' \in World /\ \A f \in Files : disk[f] # Absent => disk'[f] # Absent
  BY WorldFilesAssumption DEF Types, World, Content, Torn, Absent
<1>3. piped' \in [Backups -> World]
  BY WorldFilesAssumption DEF Types, Nothing, World, Content, Absent
<1>4. /\ producer' \in [Backups -> {"none", "walking", "broken", "eof"}]
      /\ \A b \in Backups : /\ producer[b] # "none" <=> producer'[b] # "none"
                            /\ producer'[b] = "eof" => producer[b] = "eof"
                            /\ InPipe(b)' => InPipe(b) /\ piped'[b] = piped[b]
  BY <1>1 DEF Types, InPipe
<1>5. Types'
  BY <1>1, <1>2, <1>3, <1>4 DEF Types
<1>6. WalkInv'
  BY <1>2, <1>4 DEF WalkInv, Types
<1>7. BucketInv' /\ ExtractInv' /\ StoredIsWhole'
  BY <1>1, <1>4 DEF BucketInv, ExtractInv, StoredIsWhole
<1>8. RestoredIsArchive'
  BY DEF RestoredIsArchive, BucketInv
<1> QED
  BY <1>5, <1>6, <1>7, <1>8

\* All entries have been extracted, which is reported or not.
LEMMA RestoreEndsStep ==
  ASSUME IInv, RestoreEnds
  PROVE  IInv'
<1> USE DEF IInv
<1>1. /\ busy.command = "restore" /\ busy.at \notin Files /\ busy' = Idle
      /\ restored' \in {busy.of, restored}
      /\ UNCHANGED <<disk, version, producer, next, piped, bucket, had, since>>
  BY DEF RestoreEnds, stream
<1>2. busy'.command = "none" /\ busy' \in Task
  BY <1>1, WorldFilesAssumption DEF Idle, Task, NoObject
<1>3. busy.of \in DOMAIN bucket /\ \A f \in Files : f < busy.at
  BY <1>1, WorldFilesAssumption DEF ExtractInv, Types, Task, Files
<1>4. Types' /\ BucketInv' /\ ExtractInv' /\ StoredIsWhole'
  BY <1>1, <1>2, <1>3 DEF Types, BucketInv, ExtractInv, StoredIsWhole
<1>5. WalkInv'
  BY <1>1, <1>2 DEF WalkInv, InPipe
<1>6. RestoredIsArchive'
  BY <1>1, <1>3 DEF RestoredIsArchive, ExtractInv, BucketInv
<1> QED
  BY <1>4, <1>5, <1>6

-----------------------------------------------------------------------------
(* The invariant *)

\* Every step keeps the invariant.
LEMMA NextIInv == IInv /\ [Next]_vars => IInv'
<1> SUFFICES ASSUME IInv, [Next]_vars PROVE IInv'
  OBVIOUS
<1>1. ASSUME NEW f \in Files, Save(f) PROVE IInv'
  BY <1>1, SaveStep
<1>2. CASE ProcessEnds \/ ProcessStarts \/ Connection \/ UNCHANGED vars
  BY <1>2, OtherStep DEF ProcessEnds, ProcessStarts, Connection, vars, stream, history
<1>3. ASSUME NEW f \in Files, Extract(f) PROVE IInv'
  BY <1>3, ExtractStep
<1>4. ASSUME NEW f \in Files, ExtractBreaks(f) PROVE IInv'
  <2>1. /\ \/ disk' = disk
           \/ busy.command = "restore" /\ \E g \in Files : disk' = [disk EXCEPT ![g] = Torn]
        /\ busy' = Idle
        /\ UNCHANGED <<producer, piped, version, next, bucket, had, restored, since>>
    BY <1>4 DEF ExtractBreaks, Extracting, stream, history
  <2> QED
    BY <2>1, TornStep
<1>5. CASE AgentDies
  <2>1. /\ \/ disk' = disk
           \/ busy.command = "restore" /\ \E g \in Files : disk' = [disk EXCEPT ![g] = Torn]
        /\ busy' = Idle
        /\ producer' = [b \in Backups |-> IF producer[b] = "none" THEN "none" ELSE "broken"]
        /\ piped' = [b \in Backups |-> Nothing]
        /\ UNCHANGED <<version, next, bucket, had, restored, since>>
    BY <1>5 DEF AgentDies, Extracting, history
  <2> QED
    BY <2>1, TornStep
<1>6. ASSUME NEW b \in Backups, BackupBegins(b) PROVE IInv'
  BY <1>6, BeginStep
<1>7. ASSUME NEW b \in Backups, Producer(b) PROVE IInv'
  BY <1>7, ProducerStep
<1>8. ASSUME NEW b \in Backups, ArchiveEnds(b) PROVE IInv'
  BY <1>8, EndStep
<1>9. ASSUME NEW b \in Backups, ArchiveFails(b) PROVE IInv'
  BY <1>9, FailStep
<1>10. ASSUME NEW b \in Backups, RestoreRoute(b) PROVE IInv'
  BY <1>10, RestoreStep
<1>11. CASE RestoreEnds
  BY <1>11, RestoreEndsStep
<1> QED
  BY <1>1, <1>2, <1>3, <1>4, <1>5, <1>6, <1>7, <1>8, <1>9, <1>10, <1>11 DEF Next

\* The invariant holds of every behaviour.
LEMMA AlwaysIInv == Spec => []IInv
BY InitIInv, NextIInv, PTL DEF Spec

\* Every archive in the bucket has all the files there were when its backup
\* began (archive.go), for worlds of any size and however walks, uploads and
\* agents break off.
THEOREM ArchivesAreWhole == Spec => []StoredIsWhole
BY AlwaysIInv, PTL DEF IInv

\* A restore that was reported done left every file of its archive as archived,
\* but for those the server has written since (restore.go).
THEOREM RestoresAreTrue == Spec => []RestoredIsArchive
BY AlwaysIInv, PTL DEF IInv

-----------------------------------------------------------------------------
(* The rate limiter.                                                        *)

\* Requests are numbered in the order of their times.
Numbered(S) ==
  /\ IsFiniteSet(S)
  /\ \A e \in S : e.no \in 1..Cardinality(S) /\ e.at \in Nat /\ e.at <= clock
  /\ \A e, f \in S : /\ e.no <= f.no => e.at <= f.at
                     /\ e.no = f.no => e = f

\* What is out of the window when a window is filtered stays out of all later ones.
Forgotten(S, kept) == kept \subseteq S /\ \A e \in S \ kept : e.at <= clock - WindowMs

\* The requests let through in the window that ends at t.
Window(t) == {g \in granted : t - WindowMs < g.at /\ g.at <= t}

\* A refused caller: the limiter is full, and its oldest hit leaves it at retryAt.
RefusedInv ==
  retryAt # 0 => /\ Cardinality(hits) = Limit
                 /\ \E o \in hits : /\ retryAt = o.at + WindowMs
                                    /\ \A h \in hits : o.at <= h.at

LimiterInv ==
  /\ clock \in 0..MaxTime /\ retryAt \in 0..MaxTime + WindowMs
  /\ hits \subseteq Hit /\ granted \subseteq Hit
  /\ Numbered(granted)
  /\ Forgotten(granted, hits)
  /\ Cardinality(hits) <= Limit
  /\ \A t \in 0..MaxTime : Cardinality(Window(t)) <= Limit
  /\ RefusedInv

\* Time only passes.
LEMMA ClockMoves ==
  ASSUME NEW S, NEW kept, Numbered(S), Forgotten(S, kept), clock \in Nat, Tick
  PROVE  (Numbered(S) /\ Forgotten(S, kept))'
BY WindowAssumption DEF Tick, Numbered, Forgotten

\* Of a finite set of numbered entries one is the oldest.
LEMMA OldestIsFirst ==
  ASSUME NEW hs, hs \subseteq granted, hs # {}, Numbered(granted)
  PROVE  Oldest(hs) \in hs /\ \A h \in hs : Oldest(hs).at <= h.at
<1>1. \A h \in hs : h.no \in Nat
  BY FS_CardinalityType DEF Numbered
<1>2. \E h \in hs : \A g \in hs : h.no <= g.no
  <2> DEFINE N == {h.no : h \in hs}
  <2>1. N \subseteq Nat /\ N # {}
    BY <1>1
  <2>2. PICK n \in N : \A m \in N : ~(<<m, n>> \in OpToRel(<, Nat))
    <3> HIDE DEF N
    <3> QED
      BY <2>1, NatLessThanWellFounded, WFMin
  <2>3. \A m \in N : n <= m
    <3> SUFFICES ASSUME NEW m \in N, m < n PROVE FALSE
      BY <2>1
    <3>1. <<m, n>> \in OpToRel(<, Nat)
      BY <2>1 DEF OpToRel
    <3> QED
      BY <2>2, <3>1
  <2>4. PICK h \in hs : h.no = n
    OBVIOUS
  <2> QED
    BY <2>3, <2>4
<1>3. Oldest(hs) \in hs /\ \A g \in hs : Oldest(hs).no <= g.no
  BY <1>2 DEF Oldest
<1> QED
  BY <1>3 DEF Numbered

LEMMA RecentIsFinite ==
  ASSUME LimiterInv
  PROVE  /\ IsFiniteSet(hits) /\ IsFiniteSet(Recent(clock))
         /\ Recent(clock) \subseteq hits
         /\ Cardinality(granted) \in Nat /\ Cardinality(hits) \in Nat
         /\ Cardinality(Recent(clock)) \in Nat
         /\ Cardinality(Recent(clock)) <= Cardinality(hits)
<1>1. IsFiniteSet(granted) /\ hits \subseteq granted
  BY DEF LimiterInv, Numbered, Forgotten
<1>2. IsFiniteSet(hits)
  BY <1>1, FS_Subset
<1>3. Recent(clock) \subseteq hits
  BY DEF Recent
<1>4. IsFiniteSet(Recent(clock)) /\ Cardinality(Recent(clock)) <= Cardinality(hits)
  BY <1>2, <1>3, FS_Subset
<1> QED
  BY <1>1, <1>2, <1>3, <1>4, FS_CardinalityType

\* A window that sees the request let through now sees no more than the limiter does.
LEMMA GrantStep ==
  ASSUME LimiterInv, Check, Allows(clock)
  PROVE  LimiterInv'
<1> DEFINE n == Cardinality(granted) + 1
           hit == [no |-> n, at |-> clock]
           R == Recent(clock)
<1>1. /\ n <= MaxRequests /\ clock' = clock /\ retryAt' = 0
      /\ hits' = R \cup {hit} /\ granted' = granted \cup {hit}
  BY RecentIsFinite, WindowAssumption DEF Check, Allows
<1>2. /\ IsFiniteSet(R) /\ R \subseteq hits /\ Cardinality(R) < Limit
      /\ n \in Nat \ {0} /\ IsFiniteSet(granted) /\ hits \subseteq granted
      /\ Cardinality(R) \in Nat
  BY RecentIsFinite DEF Allows, LimiterInv, Numbered, Forgotten
<1>3. clock \in 0..MaxTime /\ clock \in Nat /\ WindowMs \in Nat \ {0} /\ Limit \in Nat
  BY WindowAssumption DEF LimiterInv
<1>4. hit \in Hit /\ hit.no = n /\ hit.at = clock
  BY <1>1, <1>2, <1>3, WindowAssumption DEF Hit
<1>4a. \A e \in granted : e.no \in 1..Cardinality(granted) /\ e.at \in Nat /\ e.at <= clock
  BY DEF LimiterInv, Numbered
<1>4b. n = Cardinality(granted) + 1 /\ Cardinality(granted) \in Nat
  BY <1>2, FS_CardinalityType
<1>5. hit \notin granted
  <2> HIDE DEF n, hit
  <2> QED
    BY <1>4, <1>4a, <1>4b
<1>6. /\ IsFiniteSet(granted \cup {hit}) /\ Cardinality(granted \cup {hit}) = n
      /\ IsFiniteSet(R \cup {hit}) /\ Cardinality(R \cup {hit}) = Cardinality(R) + 1
  BY <1>2, <1>5, FS_AddElement
<1>7. Numbered(granted)'
  <2>1. \A e \in granted : e.no \in 1..(n - 1) /\ e.at \in Nat /\ e.at <= clock
    BY <1>4a, <1>4b
  <2>2. \A e, f \in granted : /\ e.no <= f.no => e.at <= f.at
                              /\ e.no = f.no => e = f
    BY DEF LimiterInv, Numbered
  <2> HIDE DEF n, hit
  <2>3. IsFiniteSet(granted') /\ Cardinality(granted') = n /\ clock' = clock
    BY <1>1, <1>6
  <2>4. \A e \in granted' : e \in granted \/ e = hit
    BY <1>1
  <2>5. \A e \in granted' : e.no \in 1..n /\ e.at \in Nat /\ e.at <= clock
    BY <2>1, <2>4, <1>2, <1>3, <1>4
  <2>6. ASSUME NEW e \in granted', NEW f \in granted'
        PROVE  (e.no <= f.no => e.at <= f.at) /\ (e.no = f.no => e = f)
    BY <2>1, <2>2, <2>4, <1>2, <1>3, <1>4
  <2> QED
    BY <2>3, <2>5, <2>6 DEF Numbered
<1>8. Forgotten(granted, hits)'
  BY <1>1, <1>2, <1>3 DEF Forgotten, LimiterInv, Recent, Numbered
<1>9. ASSUME NEW t \in 0..MaxTime PROVE Cardinality(Window(t)') <= Limit
  <2>1. CASE t >= clock
    <3>1. Window(t)' \subseteq R \cup {hit}
      <4> SUFFICES ASSUME NEW g \in granted, t - WindowMs < g.at PROVE g \in R
        BY <1>1 DEF Window
      <4>1. g.at > clock - WindowMs /\ g.at \in Nat
        BY <2>1, <1>3 DEF LimiterInv, Numbered
      <4> QED
        BY <4>1, <1>3 DEF Recent, LimiterInv, Forgotten
    <3>2. Cardinality(Window(t)') <= Cardinality(R \cup {hit}) /\ IsFiniteSet(Window(t)')
      BY <3>1, <1>6, FS_Subset
    <3>3. Cardinality(Window(t)') \in Nat
      BY <3>2, FS_CardinalityType
    <3> QED
      BY <3>2, <3>3, <1>2, <1>3, <1>6
  <2>2. CASE t < clock
    <3>1. Window(t)' = Window(t)
      BY <2>2, <1>1, <1>3, <1>4 DEF Window
    <3> QED
      BY <3>1 DEF LimiterInv
  <2> QED
    BY <2>1, <2>2, <1>3
<1>10. Cardinality(hits') <= Limit
  BY <1>1, <1>2, <1>3, <1>6
<1>11. hits' \subseteq Hit /\ granted' \subseteq Hit
  BY <1>1, <1>2, <1>4 DEF LimiterInv
<1>12. RefusedInv'
  BY <1>1 DEF RefusedInv
<1>13. clock' \in 0..MaxTime /\ retryAt' \in 0..MaxTime + WindowMs
  BY <1>1, <1>3, WindowAssumption
<1> QED
  BY <1>7, <1>8, <1>9, <1>10, <1>11, <1>12, <1>13 DEF LimiterInv

\* A refusal leaves a full limiter; the moment it names is that of its oldest hit.
LEMMA RefuseStep ==
  ASSUME LimiterInv, Check, ~Allows(clock)
  PROVE  LimiterInv'
<1> DEFINE R == Recent(clock)
<1>1. /\ clock' = clock /\ hits' = R /\ granted' = granted
      /\ retryAt' = Oldest(R).at + WindowMs
  BY DEF Check
<1>2. /\ IsFiniteSet(hits) /\ R \subseteq hits /\ hits \subseteq granted
      /\ Cardinality(R) \in Nat /\ Cardinality(R) >= Limit /\ Cardinality(R) <= Cardinality(hits)
      /\ Cardinality(hits) \in Nat /\ Cardinality(hits) <= Limit /\ Limit \in Nat \ {0}
  BY RecentIsFinite, WindowAssumption DEF Allows, LimiterInv, Forgotten
<1>3. R # {} /\ R = hits /\ Cardinality(R) = Limit
  BY <1>2, FS_Subset, FS_EmptySet
<1>4. Oldest(R) \in R /\ \A h \in R : Oldest(R).at <= h.at
  <2>1. R \subseteq granted /\ Numbered(granted)
    BY <1>2 DEF LimiterInv
  <2> HIDE DEF R
  <2> QED
    BY <1>3, <2>1, OldestIsFirst
<1>5. Oldest(R) \in Hit
  BY <1>2, <1>4 DEF LimiterInv
<1>6. retryAt' \in 0..MaxTime + WindowMs
  BY <1>1, <1>5, WindowAssumption DEF Hit
<1>7. RefusedInv'
  BY <1>1, <1>3, <1>4 DEF RefusedInv
<1>8. Forgotten(granted, hits)'
  BY <1>1, <1>3 DEF LimiterInv, Forgotten
<1>9. Numbered(granted)'
  BY <1>1 DEF LimiterInv, Numbered
<1>10. \A t \in 0..MaxTime : Window(t)' = Window(t)
  BY <1>1 DEF Window
<1> QED
  BY <1>1, <1>2, <1>3, <1>6, <1>7, <1>8, <1>9, <1>10 DEF LimiterInv

LEMMA LimiterStep ==
  ASSUME LimiterInv, Tick \/ Check \/ UNCHANGED <<clock, limiter>>
  PROVE  LimiterInv'
<1>1. CASE Tick
  <2>1. Numbered(granted)' /\ Forgotten(granted, hits)'
    BY <1>1, WindowAssumption, ClockMoves DEF LimiterInv, Tick, limiter, Numbered, Forgotten
  <2>2. clock' \in 0..MaxTime
    BY <1>1, WindowAssumption DEF Tick, LimiterInv
  <2> QED
    BY <1>1, <2>1, <2>2 DEF LimiterInv, Tick, limiter, Window, RefusedInv
<1>2. CASE Check
  BY <1>2, GrantStep, RefuseStep
<1>3. CASE UNCHANGED <<clock, limiter>>
  BY <1>3 DEF LimiterInv, limiter, Window, RefusedInv, Numbered, Forgotten
<1> QED
  BY <1>1, <1>2, <1>3

\* The limiter is exact: full until the moment it named, never after.
LEMMA LimiterIsExact == LimiterInv => LimitIsExact
<1> SUFFICES ASSUME LimiterInv, retryAt # 0 PROVE Allows(clock) <=> clock >= retryAt
  BY DEF LimitIsExact, LimiterInv, Window
<1>1. PICK o \in hits : retryAt = o.at + WindowMs /\ \A h \in hits : o.at <= h.at
  BY DEF LimiterInv, RefusedInv
<1>2. /\ clock \in Nat /\ WindowMs \in Nat /\ Limit \in Nat
      /\ \A h \in hits : h.at \in Nat
      /\ Cardinality(hits) = Limit /\ IsFiniteSet(hits)
  BY RecentIsFinite, WindowAssumption DEF LimiterInv, RefusedInv, Numbered, Forgotten
<1>3. CASE clock >= retryAt
  <2>1. Recent(clock) \subseteq hits /\ Recent(clock) # hits
    BY <1>1, <1>2, <1>3 DEF Recent
  <2>2. Cardinality(Recent(clock)) < Cardinality(hits)
    BY <2>1, <1>2, RecentIsFinite, FS_Subset
  <2> QED
    BY <2>2, <1>2, <1>3 DEF Allows
<1>4. CASE ~(clock >= retryAt)
  <2>1. Recent(clock) = hits
    BY <1>1, <1>2, <1>4 DEF Recent
  <2> QED
    BY <2>1, <1>2, <1>4 DEF Allows
<1> QED
  BY <1>3, <1>4

-----------------------------------------------------------------------------
(* The join-flood monitor.                                                  *)

Floods == {j \in joins : Verdict(j).flood}

Verdicts == [flood : BOOLEAN, count : 0..MaxJoins, unique : 0..MaxJoins, bots : BOOLEAN]

MonitorInv ==
  /\ clock \in 0..MaxTime
  /\ events \subseteq Join /\ joins \subseteq Join
  /\ verdict \in Verdicts /\ alarms \in 0..MaxJoins
  /\ Numbered(joins)
  /\ Forgotten(joins, events)
  /\ FloodIsTrue

\* A verdict counts no more players than joins, and no more joins than there are.
LEMMA JudgeType ==
  ASSUME NEW es, IsFiniteSet(es), Cardinality(es) <= MaxJoins
  PROVE  Judge(es) \in Verdicts
<1> DEFINE players == {e.xuid : e \in es}
           name == [e \in es |-> e.xuid]
<1>1. name \in Surjection(es, players)
  BY DEF Surjection
<1>2. IsFiniteSet(players) /\ Cardinality(players) <= Cardinality(es)
  BY <1>1, FS_Surjection
<1>3. Cardinality(players) \in Nat /\ Cardinality(es) \in Nat
  BY <1>2, FS_CardinalityType
<1>4. Cardinality(es) \in 0..MaxJoins /\ Cardinality(players) \in 0..MaxJoins
  BY <1>2, <1>3, WindowAssumption
<1> HIDE DEF players
<1>5. Judge(es) = [flood |-> Cardinality(es) >= Threshold, count |-> Cardinality(es),
                   unique |-> Cardinality(players),
                   bots |-> /\ Cardinality(es) >= Threshold /\ Cardinality(players) > 0
                            /\ Cardinality(es) >= 3 * Cardinality(players)]
  BY DEF Judge, players
<1> QED
  BY <1>4, <1>5 DEF Verdicts

\* What a join finds in its window is what all joins noted would show.
LEMMA JoinStep ==
  ASSUME MonitorInv, NEW p \in Players, notePlayerJoin(p)
  PROVE  MonitorInv'
<1> DEFINE n == Cardinality(joins) + 1
           new == [no |-> n, xuid |-> p, at |-> clock]
           V(j) == Judge(InWindow({e \in joins' : e.no <= j.no}, j.at))
<1>1. /\ n <= MaxJoins /\ joins' = joins \cup {new} /\ clock' = clock
      /\ events' = Pruned(events \cup {new}, clock)
      /\ verdict' = Judge(InWindow(events', clock))
      /\ alarms' = IF verdict'.flood THEN alarms + 1 ELSE alarms
  <2>1. Cardinality(joins) < MaxJoins /\ Cardinality(joins) \in Nat
    BY FS_CardinalityType DEF notePlayerJoin, NoteJoin, MonitorInv, Numbered
  <2> QED
    BY <2>1, WindowAssumption DEF notePlayerJoin, NoteJoin
<1>2. /\ IsFiniteSet(joins) /\ Cardinality(joins) \in Nat /\ n \in 1..MaxJoins
      /\ clock \in 0..MaxTime /\ clock \in Nat /\ WindowMs \in Nat \ {0} /\ MaxJoins \in Nat
  BY <1>1, FS_CardinalityType, WindowAssumption DEF MonitorInv, Numbered
<1>3. new \in Join /\ new.no = n /\ new.at = clock
  BY <1>2 DEF Join
<1>4. \A e \in joins : e.no \in 1..(n - 1) /\ e.at \in Nat /\ e.at <= clock
  BY <1>2 DEF MonitorInv, Numbered
<1>5. \A e, f \in joins : /\ e.no <= f.no => e.at <= f.at
                          /\ e.no = f.no => e = f
  BY DEF MonitorInv, Numbered
<1>6. n = Cardinality(joins) + 1
  OBVIOUS
<1> HIDE DEF n, new
<1>7. new \notin joins
  BY <1>2, <1>3, <1>4
<1>8. IsFiniteSet(joins') /\ Cardinality(joins') = n
  BY <1>1, <1>2, <1>6, <1>7, FS_AddElement
<1>9. Numbered(joins)'
  <2>1. \A e \in joins' : e \in joins \/ e = new
    BY <1>1
  <2>2. \A e \in joins' : e.no \in 1..n /\ e.at \in Nat /\ e.at <= clock
    BY <2>1, <1>2, <1>3, <1>4
  <2>3. ASSUME NEW e \in joins', NEW f \in joins'
        PROVE  (e.no <= f.no => e.at <= f.at) /\ (e.no = f.no => e = f)
    BY <2>1, <1>2, <1>3, <1>4, <1>5
  <2> QED
    BY <1>1, <1>8, <2>2, <2>3 DEF Numbered
<1>10. Forgotten(joins, events)'
  BY <1>1, <1>2, <1>3, <1>4 DEF Forgotten, MonitorInv, Pruned
<1>11. joins' \subseteq Join /\ events' \subseteq Join
  BY <1>1, <1>3 DEF MonitorInv, Pruned
<1>12. InWindow(events', clock) = InWindow(joins', clock)
  <2>1. events' \subseteq joins' /\ \A e \in joins' \ events' : e.at <= clock - WindowMs
    BY <1>1, <1>10 DEF Forgotten
  <2>2. \A e \in joins' : e.at \in Nat
    BY <1>1, <1>2, <1>3, <1>4
  <2>3. \A e \in joins' : e.at > clock - WindowMs => e \in events'
    BY <1>2, <2>1, <2>2
  <2> QED
    BY <2>1, <2>3 DEF InWindow
<1>13. verdict' = V(new)
  <2>1. {e \in joins' : e.no <= new.no} = joins'
    BY <1>1, <1>2, <1>3, <1>4
  <2> QED
    BY <1>1, <1>3, <1>12, <2>1
<1>14. \A j \in joins : V(j) = Verdict(j)
  <2> SUFFICES ASSUME NEW j \in joins PROVE V(j) = Verdict(j)
    OBVIOUS
  <2>1. {e \in joins' : e.no <= j.no} = {e \in joins : e.no <= j.no}
    BY <1>1, <1>2, <1>3, <1>4
  <2> QED
    BY <2>1 DEF Verdict
<1>15. \A j : Verdict(j)' = V(j)
  BY DEF Verdict
<1>16. verdict' \in Verdicts
  <2>1. InWindow(joins', clock) \subseteq joins'
    BY DEF InWindow
  <2>2. IsFiniteSet(InWindow(joins', clock)) /\ Cardinality(InWindow(joins', clock)) <= n
    BY <1>8, <2>1, FS_Subset
  <2>3. Cardinality(InWindow(joins', clock)) \in Nat
    BY <2>2, FS_CardinalityType
  <2>4. Cardinality(InWindow(joins', clock)) <= MaxJoins
    BY <1>2, <2>2, <2>3
  <2> QED
    BY <1>1, <1>12, <2>2, <2>4, JudgeType
<1> HIDE DEF V
<1>17. Floods' = IF verdict'.flood THEN Floods \cup {new} ELSE Floods
  <2>1. Floods' = {j \in joins' : V(j).flood}
    BY <1>15 DEF Floods
  <2> QED
    BY <2>1, <1>1, <1>7, <1>13, <1>14 DEF Floods
<1>18. IsFiniteSet(Floods) /\ Cardinality(Floods) \in Nat /\ new \notin Floods
  BY <1>2, <1>7, FS_Subset, FS_CardinalityType DEF Floods
<1>19. alarms = Cardinality(Floods)
  BY DEF MonitorInv, FloodIsTrue, Floods
<1>20. alarms' = Cardinality(Floods')
  BY <1>1, <1>17, <1>18, <1>19, FS_AddElement
<1>21. alarms' \in 0..MaxJoins
  <2>1. Floods' \subseteq joins'
    BY DEF Floods
  <2>2. Cardinality(Floods') <= n /\ IsFiniteSet(Floods')
    BY <2>1, <1>8, FS_Subset
  <2>3. Cardinality(Floods') \in Nat
    BY <2>2, FS_CardinalityType
  <2> QED
    BY <1>2, <1>20, <2>2, <2>3
<1>22. ASSUME NEW j \in joins', j.no = Cardinality(joins') PROVE verdict' = Verdict(j)'
  <2>1. j = new
    BY <1>1, <1>2, <1>4, <1>8, <1>22
  <2> QED
    BY <2>1, <1>13, <1>15
<1>23. FloodIsTrue'
  BY <1>20, <1>22 DEF FloodIsTrue, Floods
<1> QED
  BY <1>1, <1>2, <1>9, <1>10, <1>11, <1>16, <1>21, <1>23 DEF MonitorInv

LEMMA MonitorStep ==
  ASSUME MonitorInv,
         \/ Tick \/ UNCHANGED <<clock, monitor>>
         \/ \E p \in Players : notePlayerJoin(p)
  PROVE  MonitorInv'
<1>1. CASE Tick
  <2>1. Numbered(joins)' /\ Forgotten(joins, events)'
    BY <1>1, WindowAssumption DEF MonitorInv, Tick, monitor, Numbered, Forgotten
  <2>2. clock' \in 0..MaxTime /\ UNCHANGED monitor
    BY <1>1, WindowAssumption DEF Tick, MonitorInv
  <2>3. FloodIsTrue'
    BY <2>2 DEF MonitorInv, FloodIsTrue, Verdict, monitor
  <2> QED
    BY <2>1, <2>2, <2>3 DEF MonitorInv, monitor
<1>2. CASE UNCHANGED <<clock, monitor>>
  <2>1. FloodIsTrue'
    BY <1>2 DEF MonitorInv, FloodIsTrue, Verdict, monitor
  <2> QED
    BY <1>2, <2>1 DEF MonitorInv, monitor, Numbered, Forgotten
<1>3. CASE \E p \in Players : notePlayerJoin(p)
  BY <1>3, JoinStep
<1> QED
  BY <1>1, <1>2, <1>3

-----------------------------------------------------------------------------
(* The allowlist syncs.                                                     *)

SyncTypes ==
  /\ tracked \in [Players -> Servers \cup {Nowhere}]
  /\ request \in [Syncs -> Stages] /\ contents \in [Syncs -> Entries]
  /\ wire \in Seq(Command) /\ answers \subseteq Command \X BOOLEAN
  /\ agent \in {AtRest} \cup ({"torn", "whole"} \X Syncs)
  /\ target \in Entries /\ loaded \in Entries
  /\ agentUp \in BOOLEAN /\ faults \in 0..MaxFaults

OnWire(c) == \E i \in 1..Len(wire) : wire[i] = c
OnceOnWire == \A i, j \in 1..Len(wire) : wire[i] = wire[j] => i = j
InWriter(q) == agent = <<"torn", q>> \/ agent = <<"whole", q>>
Answered(c) == \E ok \in BOOLEAN : <<c, ok>> \in answers

\* A command is in one place: on its way, in the file writer, or answered, and its
\* route waits for it.
WriteInv(q) ==
  LET c == <<"write", q>>
  IN  /\ OnWire(c) => request[q] = "writing" /\ ~InWriter(q) /\ ~Answered(c)
      /\ InWriter(q) => request[q] = "writing" /\ ~Answered(c)
      /\ Answered(c) => request[q] = "writing"
      /\ ~(<<c, TRUE>> \in answers /\ <<c, FALSE>> \in answers)
ReloadInv(q) ==
  LET c == <<"reload", q>>
  IN  /\ OnWire(c) => request[q] = "reloading" /\ ~Answered(c)
      /\ Answered(c) => request[q] = "reloading"
      /\ ~(<<c, TRUE>> \in answers /\ <<c, FALSE>> \in answers)

\* What is on disk and not in the game server yet has its reload still to come.
ReloadComes ==
  \/ loaded = target
  \/ \E q \in Syncs : <<<<"write", q>>, TRUE>> \in answers \/ OnWire(<<"reload", q>>)

SyncInv ==
  faults = 0 => /\ agentUp /\ OnceOnWire
                /\ \A q \in Syncs : WriteInv(q) /\ ReloadInv(q)
                /\ ReloadComes

LEMMA QuietFollows == SyncTypes /\ SyncInv => QuietIsLoaded
<1> SUFFICES ASSUME SyncTypes, SyncInv, faults = 0, \A q \in Syncs : ~Pending(q),
                    loaded # target
             PROVE  FALSE
  BY DEF QuietIsLoaded
<1>1. PICK q \in Syncs : <<<<"write", q>>, TRUE>> \in answers \/ OnWire(<<"reload", q>>)
  BY DEF SyncInv, ReloadComes
<1>2. WriteInv(q) /\ ReloadInv(q)
  BY DEF SyncInv
<1>3. Pending(q)
  BY <1>1, <1>2 DEF WriteInv, ReloadInv, Answered, Pending
<1> QED
  BY <1>3

\* A command is sent.
LEMMA Sends ==
  ASSUME SyncTypes, NEW c \in Command, wire' = Append(wire, c)
  PROVE  /\ \A d : OnWire(d)' <=> OnWire(d) \/ d = c
         /\ OnceOnWire /\ ~OnWire(c) => OnceOnWire'
<1>1. wire \in Seq(Command)
  BY DEF SyncTypes
<1>2. /\ Len(wire') = Len(wire) + 1 /\ Len(wire) \in Nat
      /\ \A i \in 1..Len(wire) : wire'[i] = wire[i]
      /\ wire'[Len(wire) + 1] = c
  BY <1>1
<1>3. \A i \in 1..Len(wire') : i \in 1..Len(wire) \/ i = Len(wire) + 1
  BY <1>2
<1>4. ASSUME NEW d PROVE OnWire(d)' <=> OnWire(d) \/ d = c
  BY <1>2, <1>3 DEF OnWire
<1>5. ASSUME OnceOnWire, ~OnWire(c) PROVE OnceOnWire'
  BY <1>2, <1>3, <1>5 DEF OnceOnWire, OnWire
<1> QED
  BY <1>4, <1>5

\* A command is taken by the agent.
LEMMA Takes ==
  ASSUME SyncTypes, wire # <<>>, wire' = Tail(wire)
  PROVE  /\ Head(wire) \in Command /\ OnWire(Head(wire)) /\ wire' \in Seq(Command)
         /\ OnceOnWire => /\ \A d : OnWire(d)' <=> OnWire(d) /\ d # Head(wire)
                          /\ OnceOnWire'
<1>1. wire \in Seq(Command)
  BY DEF SyncTypes
<1>2. /\ Len(wire) \in Nat \ {0} /\ Len(wire') = Len(wire) - 1
      /\ \A i \in 1..Len(wire') : i + 1 \in 1..Len(wire) /\ wire'[i] = wire[i + 1]
      /\ Head(wire) = wire[1] /\ wire' \in Seq(Command) /\ Head(wire) \in Command
  BY <1>1
<1>3. \A i \in 1..Len(wire) : i = 1 \/ i - 1 \in 1..Len(wire')
  BY <1>2
<1>4. OnWire(Head(wire))
  BY <1>2 DEF OnWire
<1>5. ASSUME OnceOnWire
      PROVE  OnceOnWire' /\ \A d : OnWire(d)' <=> OnWire(d) /\ d # Head(wire)
  <2>1. OnceOnWire'
    BY <1>2, <1>5 DEF OnceOnWire
  <2>2. ASSUME NEW d, OnWire(d)' PROVE OnWire(d) /\ d # Head(wire)
    <3>1. PICK i \in 1..Len(wire') : wire'[i] = d
      BY <2>2 DEF OnWire
    <3>2. wire[i + 1] = d /\ i + 1 \in 1..Len(wire) /\ i + 1 # 1 /\ 1 \in 1..Len(wire)
      BY <1>2, <3>1
    <3> QED
      BY <3>2, <1>2, <1>5 DEF OnWire, OnceOnWire
  <2>3. ASSUME NEW d, OnWire(d), d # Head(wire) PROVE OnWire(d)'
    <3>1. PICK i \in 1..Len(wire) : wire[i] = d
      BY <2>3 DEF OnWire
    <3>2. i - 1 \in 1..Len(wire') /\ (i - 1) + 1 = i
      BY <1>2, <1>3, <2>3, <3>1
    <3>3. wire'[i - 1] = d
      BY <1>2, <3>1, <3>2
    <3> QED
      BY <3>2, <3>3 DEF OnWire
  <2> QED
    BY <2>1, <2>2, <2>3
<1> QED
  BY <1>2, <1>4, <1>5

LEMMA AgentType ==
  ASSUME SyncTypes
  PROVE  \/ agent = AtRest
         \/ \E q \in Syncs : agent = <<"torn", q>>
         \/ \E q \in Syncs : agent = <<"whole", q>>
BY DEF SyncTypes

\* What SyncInv says on a flawless step.
Flawless == faults = 0 /\ faults' = 0 /\ agentUp /\ agentUp' /\ OnceOnWire

LEMMA BeginsStep ==
  ASSUME SyncTypes, SyncInv, Flawless, NEW q \in Syncs, SyncBegins(q)
  PROVE  SyncInv'
<1> DEFINE c == <<"write", q>>
<1>1. /\ request[q] = "none" /\ request' = [request EXCEPT ![q] = "writing"]
      /\ wire' = Append(wire, c) /\ UNCHANGED <<host, answers>> /\ c \in Command
  BY DEF SyncBegins, Flawless, Sent, Command
<1>2. request \in [Syncs -> Stages]
  BY DEF SyncTypes
<1>3. ~OnWire(c) /\ ~InWriter(q) /\ ~Answered(c) /\ ~OnWire(<<"reload", q>>) /\ ~Answered(<<"reload", q>>)
  BY <1>1 DEF SyncInv, Flawless, WriteInv, ReloadInv
<1>4. OnceOnWire' /\ \A d : OnWire(d)' <=> OnWire(d) \/ d = c
  BY <1>1, <1>3, Sends DEF Flawless
<1>5. ASSUME NEW r \in Syncs PROVE WriteInv(r)' /\ ReloadInv(r)'
  <2>1. WriteInv(r) /\ ReloadInv(r)
    BY DEF SyncInv, Flawless
  <2>2. (InWriter(r)' <=> InWriter(r)) /\ \A d : Answered(d)' <=> Answered(d)
    BY <1>1 DEF InWriter, Answered, host
  <2>3. request'[r] = IF r = q THEN "writing" ELSE request[r]
    BY <1>1, <1>2
  <2>4. <<"write", r>> = c <=> r = q
    OBVIOUS
  <2>5. <<"reload", r>> # c
    OBVIOUS
  <2> HIDE DEF c
  <2> QED
    BY <1>1, <1>3, <1>4, <2>1, <2>2, <2>3, <2>4, <2>5 DEF WriteInv, ReloadInv, Answered
<1>6. ReloadComes'
  BY <1>1, <1>4 DEF SyncInv, Flawless, ReloadComes, host
<1> QED
  BY <1>4, <1>5, <1>6 DEF SyncInv, Flawless

LEMMA WrittenStep ==
  ASSUME SyncTypes, SyncInv, Flawless, NEW q \in Syncs, Written(q)
  PROVE  SyncInv'
<1> DEFINE c == <<"reload", q>>
           w == <<"write", q>>
<1>1. /\ request[q] = "writing" /\ request' = [request EXCEPT ![q] = "reloading"]
      /\ wire' = Append(wire, c) /\ UNCHANGED host /\ c \in Command
      /\ <<w, TRUE>> \in answers /\ answers' = answers \ {<<w, TRUE>>}
  BY DEF Written, Flawless, Sent, Command, Reloads
<1>2. request \in [Syncs -> Stages]
  BY DEF SyncTypes
<1>3. /\ ~OnWire(c) /\ ~Answered(c) /\ ~OnWire(w) /\ ~InWriter(q) /\ ~Answered(w)'
  BY <1>1 DEF SyncInv, Flawless, WriteInv, ReloadInv, Answered
<1>4. OnceOnWire' /\ \A d : OnWire(d)' <=> OnWire(d) \/ d = c
  BY <1>1, <1>3, Sends DEF Flawless
<1>5. ASSUME NEW r \in Syncs PROVE WriteInv(r)' /\ ReloadInv(r)'
  <2>1. WriteInv(r) /\ ReloadInv(r)
    BY DEF SyncInv, Flawless
  <2>2. (InWriter(r)' <=> InWriter(r)) /\ answers' \subseteq answers
    BY <1>1 DEF InWriter, host
  <2>3. \A d : Answered(d)' => Answered(d)
    BY <2>2 DEF Answered
  <2>4. request'[r] = IF r = q THEN "reloading" ELSE request[r]
    BY <1>1, <1>2
  <2>5. (<<"reload", r>> = c <=> r = q) /\ <<"write", r>> # c /\ (r = q => <<"write", r>> = w)
    OBVIOUS
  <2> HIDE DEF c, w
  <2> QED
    BY <1>1, <1>3, <1>4, <2>1, <2>2, <2>3, <2>4, <2>5 DEF WriteInv, ReloadInv
<1>6. ReloadComes'
  BY <1>4 DEF ReloadComes
<1> QED
  BY <1>4, <1>5, <1>6 DEF SyncInv, Flawless

\* A route takes an answer that owes no reload: the write was refused, or the reload
\* has been.
LEMMA SettledStep ==
  ASSUME SyncTypes, SyncInv, Flawless, NEW q \in Syncs, Refused(q) \/ Reloaded(q)
  PROVE  SyncInv'
<1> DEFINE w == <<"write", q>>
           c == <<"reload", q>>
<1>1. /\ request[q] # "none" /\ UNCHANGED <<host, wire>> /\ answers' \subseteq answers
      /\ request' = [request EXCEPT ![q] = request'[q]]
      /\ \A r \in Syncs : <<<<"write", r>>, TRUE>> \in answers => <<<<"write", r>>, TRUE>> \in answers'
  BY DEF Refused, Reloaded, Sent, SyncTypes
<1>2. /\ ~OnWire(w) /\ ~InWriter(q) /\ ~OnWire(c)
      /\ ~Answered(w)' /\ ~Answered(c)'
  <2>1. WriteInv(q) /\ ReloadInv(q)
    BY DEF SyncInv, Flawless
  <2>2. CASE Refused(q)
    <3>1. request[q] = "writing" /\ <<w, FALSE>> \in answers /\ answers' = answers \ {<<w, FALSE>>}
      BY <2>2 DEF Refused
    <3> QED
      BY <2>1, <3>1 DEF WriteInv, ReloadInv, Answered
  <2>3. CASE Reloaded(q)
    <3>1. PICK ok \in BOOLEAN : /\ request[q] = "reloading" /\ <<c, ok>> \in answers
                               /\ answers' = answers \ {<<c, ok>>}
      BY <2>3 DEF Reloaded
    <3>2. ~OnWire(w) /\ ~InWriter(q) /\ ~OnWire(c) /\ ~Answered(w)
      BY <2>1, <3>1 DEF WriteInv, ReloadInv, Answered
    <3>3. ~Answered(c)'
      BY <2>1, <3>1 DEF ReloadInv, Answered
    <3> QED
      BY <1>1, <3>2, <3>3 DEF Answered
  <2> QED
    BY <2>2, <2>3
<1>3. ASSUME NEW r \in Syncs PROVE WriteInv(r)' /\ ReloadInv(r)'
  <2>1. WriteInv(r) /\ ReloadInv(r)
    BY DEF SyncInv, Flawless
  <2>2. (InWriter(r)' <=> InWriter(r)) /\ \A d : OnWire(d)' <=> OnWire(d)
    BY <1>1 DEF InWriter, OnWire, host
  <2>3. \A d : Answered(d)' => Answered(d)
    BY <1>1 DEF Answered
  <2>4. r # q => request'[r] = request[r]
    BY <1>1 DEF SyncTypes
  <2>5. r = q => <<"write", r>> = w /\ <<"reload", r>> = c
    OBVIOUS
  <2> HIDE DEF c, w
  <2> QED
    BY <1>1, <1>2, <2>1, <2>2, <2>3, <2>4, <2>5 DEF WriteInv, ReloadInv
<1>4. ReloadComes'
  BY <1>1 DEF SyncInv, Flawless, ReloadComes, host, OnWire
<1>5. OnceOnWire'
  BY <1>1 DEF Flawless, OnceOnWire
<1> QED
  BY <1>3, <1>4, <1>5 DEF SyncInv, Flawless

\* An answer, given while its route waits, as it does when all goes well.
LEMMA Answers ==
  ASSUME NEW c \in Command, NEW ok \in BOOLEAN, Answer(c, ok), Pending(c[2])
  PROVE  answers' = answers \cup {<<c, ok>>} /\ \A d : Answered(d)' <=> Answered(d) \/ d = c
BY DEF Answer, Answered

LEMMA TakesWriteStep ==
  ASSUME SyncTypes, SyncInv, Flawless, BeginWrite
  PROVE  SyncInv'
<1>1. PICK q \in Syncs : Head(wire) = <<"write", q>>
  BY Takes DEF BeginWrite, Command
<1> DEFINE w == <<"write", q>>
<1>2. /\ agent = AtRest /\ agent' = <<"torn", q>> /\ wire # <<>> /\ wire' = Tail(wire)
      /\ UNCHANGED <<route, target, loaded, answers>>
  BY <1>1 DEF BeginWrite
<1>3. OnWire(w) /\ OnceOnWire' /\ \A d : OnWire(d)' <=> OnWire(d) /\ d # w
  BY <1>1, <1>2, Takes DEF Flawless
<1>4. ASSUME NEW r \in Syncs PROVE WriteInv(r)' /\ ReloadInv(r)'
  <2>1. WriteInv(r) /\ ReloadInv(r)
    BY DEF SyncInv, Flawless
  <2>2. (InWriter(r)' <=> r = q) /\ ~InWriter(r)
    BY <1>2 DEF InWriter, AtRest
  <2>3. request' = request /\ answers' = answers /\ \A d : Answered(d)' <=> Answered(d)
    BY <1>2 DEF route, Answered
  <2>4. (<<"write", r>> = w <=> r = q) /\ <<"reload", r>> # w
    OBVIOUS
  <2> HIDE DEF w
  <2> QED
    BY <1>3, <2>1, <2>2, <2>3, <2>4 DEF WriteInv, ReloadInv
<1>5. ReloadComes'
  BY <1>2, <1>3 DEF SyncInv, Flawless, ReloadComes
<1> QED
  BY <1>3, <1>4, <1>5 DEF SyncInv, Flawless

LEMMA FillStep ==
  ASSUME SyncTypes, SyncInv, Flawless, Fill
  PROVE  SyncInv'
<1>1. /\ \A q \in Syncs : InWriter(q)' <=> InWriter(q)
      /\ UNCHANGED <<route, target, loaded, wire, answers>>
  BY AgentType DEF Fill, InWriter, AtRest, tunnel
<1> QED
  BY <1>1 DEF SyncInv, Flawless, WriteInv, ReloadInv, ReloadComes, OnWire, OnceOnWire,
              Answered, route

LEMMA WriterIsBusy ==
  ASSUME Rename \/ WriteFails
  PROVE  agent # AtRest
<1>1. AtRest[1] = "idle"
  BY DEF AtRest
<1>2. CASE Rename
  <2>1. agent[1] = "whole"
    BY <1>2 DEF Rename
  <2> QED
    BY <1>1, <2>1
<1>3. CASE WriteFails
  BY <1>3 DEF WriteFails
<1> QED
  BY <1>2, <1>3

\* The writer is done: the answer says whether the file was replaced.
LEMMA WriterEndsStep ==
  ASSUME SyncTypes, SyncInv, Flawless, Rename \/ WriteFails
  PROVE  SyncInv'
<1>0. agent # AtRest
  BY WriterIsBusy
<1>1. PICK q \in Syncs : InWriter(q) /\ agent[2] = q
  <2>1. PICK q \in Syncs : InWriter(q)
    BY <1>0, AgentType DEF InWriter
  <2>2. agent[2] = q
    BY <2>1 DEF InWriter
  <2> QED
    BY <2>1, <2>2
<1> DEFINE w == <<"write", q>>
<1>2. request[q] = "writing" /\ ~Answered(w) /\ ~OnWire(w)
  BY <1>1 DEF SyncInv, Flawless, WriteInv
<1>3. PICK ok \in BOOLEAN : /\ Answer(w, ok) /\ agent' = AtRest
                            /\ UNCHANGED <<route, wire, loaded>>
                            /\ ok \/ target' = target
  BY <1>1 DEF Rename, WriteFails
<1>4. answers' = answers \cup {<<w, ok>>} /\ \A d : Answered(d)' <=> Answered(d) \/ d = w
  <2>1. w \in Command /\ Pending(w[2])
    BY <1>2 DEF Command, Pending
  <2> QED
    BY <1>3, <2>1, Answers
<1>5. ASSUME NEW r \in Syncs PROVE WriteInv(r)' /\ ReloadInv(r)'
  <2>1. WriteInv(r) /\ ReloadInv(r)
    BY DEF SyncInv, Flawless
  <2>2. ~InWriter(r)'
    BY <1>3 DEF InWriter, AtRest
  <2>3. request' = request /\ \A d : OnWire(d)' <=> OnWire(d)
    BY <1>3 DEF route, OnWire
  <2>4. (<<"write", r>> = w <=> r = q) /\ <<"reload", r>> # w
    OBVIOUS
  <2>5. \A x \in BOOLEAN : /\ <<<<"write", r>>, x>> \in answers' <=>
                                <<<<"write", r>>, x>> \in answers \/ (r = q /\ x = ok)
                           /\ <<<<"reload", r>>, x>> \in answers' <=>
                                <<<<"reload", r>>, x>> \in answers
    BY <1>4
  <2>6. ~(<<<<"write", r>>, TRUE>> \in answers' /\ <<<<"write", r>>, FALSE>> \in answers')
    BY <1>2, <2>1, <2>5 DEF WriteInv, Answered
  <2>7. ~(<<<<"reload", r>>, TRUE>> \in answers' /\ <<<<"reload", r>>, FALSE>> \in answers')
    BY <2>1, <2>5 DEF ReloadInv
  <2> HIDE DEF w
  <2> QED
    BY <1>2, <1>4, <2>1, <2>2, <2>3, <2>4, <2>6, <2>7 DEF WriteInv, ReloadInv
<1>6. ReloadComes'
  <2>1. \A d : OnWire(d)' <=> OnWire(d)
    BY <1>3 DEF OnWire
  <2> QED
    BY <1>3, <1>4, <2>1 DEF SyncInv, Flawless, ReloadComes
<1>7. OnceOnWire'
  BY <1>3 DEF Flawless, OnceOnWire
<1> QED
  BY <1>5, <1>6, <1>7 DEF SyncInv, Flawless

\* The game server takes what is on disk.
LEMMA ReloadStep ==
  ASSUME SyncTypes, SyncInv, Flawless, Reload
  PROVE  SyncInv'
<1>1. PICK q \in Syncs : Head(wire) = <<"reload", q>>
  BY Takes DEF Reload, Command
<1> DEFINE c == <<"reload", q>>
<1>2. /\ Answer(c, TRUE) /\ loaded' = target /\ wire # <<>> /\ wire' = Tail(wire)
      /\ UNCHANGED <<route, agent, target>>
  BY <1>1 DEF Reload
<1>3. OnWire(c) /\ OnceOnWire' /\ \A d : OnWire(d)' <=> OnWire(d) /\ d # c
  BY <1>1, <1>2, Takes DEF Flawless
<1>4. request[q] = "reloading" /\ ~Answered(c)
  BY <1>3 DEF SyncInv, Flawless, ReloadInv
<1>5. answers' = answers \cup {<<c, TRUE>>} /\ \A d : Answered(d)' <=> Answered(d) \/ d = c
  <2>1. c \in Command /\ Pending(c[2])
    BY <1>4 DEF Command, Pending
  <2> QED
    BY <1>2, <2>1, Answers
<1>6. ASSUME NEW r \in Syncs PROVE WriteInv(r)' /\ ReloadInv(r)'
  <2>1. WriteInv(r) /\ ReloadInv(r)
    BY DEF SyncInv, Flawless
  <2>2. request' = request /\ (InWriter(r)' <=> InWriter(r))
    BY <1>2 DEF route, InWriter
  <2>3. (<<"reload", r>> = c <=> r = q) /\ <<"write", r>> # c
    OBVIOUS
  <2>4. \A x \in BOOLEAN : /\ <<<<"reload", r>>, x>> \in answers' <=>
                                <<<<"reload", r>>, x>> \in answers \/ (r = q /\ x = TRUE)
                           /\ <<<<"write", r>>, x>> \in answers' <=>
                                <<<<"write", r>>, x>> \in answers
    BY <1>5
  <2>5. ~(<<<<"reload", r>>, TRUE>> \in answers' /\ <<<<"reload", r>>, FALSE>> \in answers')
    BY <1>4, <2>1, <2>4 DEF ReloadInv, Answered
  <2>6. ~(<<<<"write", r>>, TRUE>> \in answers' /\ <<<<"write", r>>, FALSE>> \in answers')
    BY <2>1, <2>4 DEF WriteInv
  <2> HIDE DEF c
  <2> QED
    BY <1>3, <1>4, <1>5, <2>1, <2>2, <2>3, <2>5, <2>6 DEF WriteInv, ReloadInv
<1>7. ReloadComes'
  BY <1>2 DEF ReloadComes
<1> QED
  BY <1>3, <1>6, <1>7 DEF SyncInv, Flawless


-----------------------------------------------------------------------------
(* Types of the syncs, and the invariant.                                   *)

SyncsIdle == UNCHANGED <<route, host, tunnel>>

LEMMA SyncTypesStep ==
  ASSUME SyncTypes, [PlayersNext]_playersVars
  PROVE  SyncTypes'
<1> USE DEF SyncTypes
<1>0. MaxFaults \in Nat /\ faults \in Nat /\ {} \in Entries
  BY PlayersAssumption DEF Entries
<1>1. ASSUME NEW c \in Command, NEW ok \in BOOLEAN, Answer(c, ok)
      PROVE  answers' \subseteq Command \X BOOLEAN
  BY <1>1 DEF Answer
<1>2. ASSUME NEW p \in Players, NEW s \in Servers \cup {Nowhere}, LogLineJoins(p, s) \/ JoinPosted(p, s)
      PROVE  SyncTypes'
  BY <1>2 DEF LogLineJoins, JoinPosted, RecordJoin, route, host, tunnel
<1>3. CASE WindowStep \/ UNCHANGED playersVars
  BY <1>3 DEF WindowStep, playersVars, route, host, tunnel
<1>4. ASSUME NEW q \in Syncs, SyncBegins(q) PROVE SyncTypes'
  <2>1. <<"write", q>> \in Command
    BY DEF Command
  <2>2. contents' \in [Syncs -> Entries]
    <3>1. PICK es \in {fromPlayerTracker, {}, Players} : contents' = [contents EXCEPT ![q] = es]
      BY <1>4 DEF SyncBegins
    <3>2. es \in Entries
      BY <3>1 DEF Entries, fromPlayerTracker, PlayersOf
    <3> QED
      BY <3>1, <3>2
  <2>3. wire' \in Seq(Command)
    <3>1. wire' = Append(wire, <<"write", q>>) \/ wire' = wire
      BY <1>4 DEF SyncBegins
    <3> QED
      BY <2>1, <3>1
  <2>4. request' \in [Syncs -> Stages]
    BY <1>4 DEF SyncBegins, Sent, Stages
  <2> QED
    BY <1>4, <2>2, <2>3, <2>4 DEF SyncBegins, host
<1>5. ASSUME NEW q \in Syncs, Written(q) PROVE SyncTypes'
  <2>1. <<"reload", q>> \in Command
    BY DEF Command
  <2>2. wire' \in Seq(Command)
    <3>1. wire' = Append(wire, <<"reload", q>>) \/ wire' = wire
      BY <1>5 DEF Written
    <3> QED
      BY <2>1, <3>1
  <2>3. request' \in [Syncs -> Stages]
    BY <1>5 DEF Written, Sent, Stages
  <2> QED
    BY <1>5, <2>2, <2>3 DEF Written, host
<1>6. ASSUME NEW q \in Syncs, Refused(q) \/ Reloaded(q) PROVE SyncTypes'
  BY <1>6 DEF Refused, Reloaded, Sent, Stages, host
<1>7. ASSUME NEW q \in Syncs, TimesOut(q) PROVE SyncTypes'
  BY <1>0, <1>7, PlayersAssumption DEF TimesOut, Sent, Stages, host
<1>8. CASE BeginWrite
  <2>1. PICK q \in Syncs : Head(wire) = <<"write", q>>
    BY <1>8, Takes DEF BeginWrite, Command
  <2>2. wire' \in Seq(Command)
    BY <1>8, Takes DEF BeginWrite
  <2> QED
    BY <1>8, <2>1, <2>2 DEF BeginWrite, route
<1>9. CASE Fill
  <2>1. agent' \in {AtRest} \cup ({"torn", "whole"} \X Syncs)
    BY <1>9, AgentType DEF Fill, AtRest
  <2> QED
    BY <1>9, <2>1 DEF Fill, route, tunnel
<1>10. CASE Rename \/ WriteFails
  <2>1. agent # AtRest
    BY <1>10, WriterIsBusy
  <2>2. agent[2] \in Syncs
    BY <2>1, AgentType
  <2>3. <<"write", agent[2]>> \in Command
    BY <2>2 DEF Command
  <2>4. answers' \subseteq Command \X BOOLEAN
    BY <1>1, <1>10, <2>3 DEF Rename, WriteFails
  <2> QED
    BY <1>10, <2>2, <2>4 DEF Rename, WriteFails, route
<1>11. CASE Reload \/ ReloadFails
  <2>1. Head(wire) \in Command /\ wire' \in Seq(Command)
    BY <1>11, Takes DEF Reload, ReloadFails
  <2>2. answers' \subseteq Command \X BOOLEAN
    BY <1>1, <1>11, <2>1 DEF Reload, ReloadFails
  <2>3. faults' \in 0..MaxFaults
    <3>1. CASE Reload
      BY <3>1 DEF Reload
    <3>2. CASE ReloadFails
      <4>1. faults' = faults + 1 /\ faults < MaxFaults
        BY <3>2 DEF ReloadFails
      <4> QED
        BY <1>0, <4>1
    <3> QED
      BY <1>11, <3>1, <3>2
  <2> QED
    <3>1. CASE Reload
      BY <3>1, <2>1, <2>2, <2>3 DEF Reload, route
    <3>2. CASE ReloadFails
      BY <3>2, <2>1, <2>2, <2>3 DEF ReloadFails, route, host
    <3> QED
      BY <1>11, <3>1, <3>2
<1>12. CASE AgentLost
  <2>1. faults' = faults + 1 /\ faults < MaxFaults
    BY <1>12 DEF AgentLost
  <2>2. faults' \in 0..MaxFaults
    BY <1>0, <2>1
  <2>3. agent' \in {agent, AtRest}
    BY <1>12 DEF AgentLost
  <2> QED
    <3>1. UNCHANGED <<tracked, request, contents, target, loaded>>
      BY <1>12 DEF AgentLost, route
    <3>2. agentUp' = FALSE /\ wire' = <<>> /\ answers' = {}
      BY <1>12 DEF AgentLost
    <3>3. wire' \in Seq(Command)
      BY <3>2
    <3> QED
      BY <2>2, <2>3, <3>1, <3>2, <3>3
<1>13. CASE AgentBack
  BY <1>13 DEF AgentBack, route, host
<1> QED
  BY <1>2, <1>3, <1>4, <1>5, <1>6, <1>7, <1>8, <1>9, <1>10, <1>11, <1>12, <1>13
     DEF PlayersNext

\* Only what fails counts as a fault, and only a lost agent is away.
LEMMA FaultsAndAgent ==
  ASSUME [PlayersNext]_playersVars
  PROVE  \/ UNCHANGED <<faults, agentUp>>
         \/ ReloadFails \/ AgentLost \/ \E q \in Syncs : TimesOut(q)
         \/ AgentBack /\ UNCHANGED faults
<1>1. ASSUME NEW p \in Players, NEW s \in Servers \cup {Nowhere}, LogLineJoins(p, s) \/ JoinPosted(p, s)
      PROVE  UNCHANGED <<faults, agentUp>>
  BY <1>1 DEF LogLineJoins, JoinPosted, tunnel
<1>2. CASE WindowStep \/ UNCHANGED playersVars
  BY <1>2 DEF WindowStep, playersVars, tunnel
<1>3. ASSUME NEW q \in Syncs, SyncBegins(q) \/ Written(q) \/ Refused(q) \/ Reloaded(q)
      PROVE  UNCHANGED <<faults, agentUp>>
  BY <1>3 DEF SyncBegins, Written, Refused, Reloaded
<1>4. CASE BeginWrite \/ Fill \/ Rename \/ WriteFails \/ Reload
  BY <1>4 DEF BeginWrite, Fill, Rename, WriteFails, Reload, tunnel
<1>5. CASE AgentBack
  BY <1>5 DEF AgentBack
<1> QED
  BY <1>1, <1>2, <1>3, <1>4, <1>5 DEF PlayersNext

LEMMA SyncStep ==
  ASSUME SyncTypes, SyncInv, [PlayersNext]_playersVars
  PROVE  SyncInv'
<1>1. SUFFICES ASSUME faults' = 0 PROVE SyncInv'
  BY DEF SyncInv
<1>2. CASE SyncsIdle
  BY <1>2 DEF SyncsIdle, route, host, tunnel, SyncInv, WriteInv, ReloadInv, ReloadComes, OnWire,
              OnceOnWire, Answered, InWriter
<1>3. /\ ~ReloadFails /\ ~AgentLost /\ ~\E q \in Syncs : TimesOut(q)
      /\ faults = 0
  <2>1. faults \in Nat
    BY PlayersAssumption DEF SyncTypes
  <2>2. faults' # 0 \/ ~(ReloadFails \/ AgentLost \/ \E q \in Syncs : TimesOut(q))
    <3>1. ReloadFails \/ AgentLost => faults' = faults + 1
      BY DEF ReloadFails, AgentLost
    <3>2. \A q \in Syncs : TimesOut(q) => faults' = IF faults = 0 THEN 1 ELSE faults
      BY DEF TimesOut
    <3> QED
      BY <2>1, <3>1, <3>2
  <2>3. faults' = faults \/ ReloadFails \/ AgentLost \/ \E q \in Syncs : TimesOut(q)
    BY FaultsAndAgent
  <2> QED
    BY <1>1, <2>2, <2>3
<1>4. agentUp /\ OnceOnWire
  BY <1>3 DEF SyncInv
<1>5. agentUp'
  BY <1>3, <1>4, FaultsAndAgent DEF AgentBack
<1>6. Flawless
  BY <1>1, <1>3, <1>4, <1>5 DEF Flawless
<1>7. CASE \E p \in Players, s \in Servers \cup {Nowhere} : LogLineJoins(p, s) \/ JoinPosted(p, s)
  <2>1. UNCHANGED <<route, host, tunnel>>
    BY <1>7 DEF LogLineJoins, JoinPosted
  <2> QED
    BY <1>2, <2>1 DEF SyncsIdle
<1>8. CASE WindowStep \/ UNCHANGED playersVars
  BY <1>2, <1>8 DEF WindowStep, playersVars, SyncsIdle
<1>9. ASSUME NEW q \in Syncs, SyncBegins(q) \/ Written(q) \/ Refused(q) \/ Reloaded(q) PROVE SyncInv'
  BY <1>6, <1>9, BeginsStep, WrittenStep, SettledStep
<1>10. CASE BeginWrite \/ Fill \/ Rename \/ WriteFails \/ Reload
  BY <1>6, <1>10, TakesWriteStep, FillStep, WriterEndsStep, ReloadStep
<1>11. ~AgentBack
  BY <1>4 DEF AgentBack
<1> QED
  BY <1>3, <1>7, <1>8, <1>9, <1>10, <1>11 DEF PlayersNext

-----------------------------------------------------------------------------
(* Players: the invariant and the theorems.                                 *)

PlayersInv == LimiterInv /\ MonitorInv /\ SyncTypes /\ SyncInv

LEMMA InitPlayersInv == PlayersInit => PlayersInv
<1> SUFFICES ASSUME PlayersInit PROVE PlayersInv
  OBVIOUS
<1> USE DEF PlayersInit, WInit
<1>1. IsFiniteSet({}) /\ Cardinality({}) = 0
  BY FS_EmptySet
<1>2. LimiterInv
  <2>1. \A t \in 0..MaxTime : Window(t) = {}
    BY DEF Window
  <2>2. 0 \in 0..MaxTime /\ 0 \in 0..MaxTime + WindowMs /\ 0 <= Limit
    BY WindowAssumption
  <2>3. Numbered(granted) /\ Forgotten(granted, hits) /\ RefusedInv
    BY <1>1 DEF Numbered, Forgotten, RefusedInv
  <2>4. \A t \in 0..MaxTime : Cardinality(Window(t)) <= Limit
    BY <1>1, <2>1, <2>2
  <2> QED
    BY <1>1, <2>2, <2>3, <2>4 DEF LimiterInv
<1>3. MonitorInv
  <2>1. {j \in joins : Verdict(j).flood} = {}
    OBVIOUS
  <2>2. FloodIsTrue
    BY <1>1, <2>1 DEF FloodIsTrue
  <2> QED
    BY <1>1, <2>2, WindowAssumption DEF MonitorInv, Numbered, Forgotten, Verdicts
<1>4. SyncTypes
  BY PlayersAssumption DEF SyncTypes, Entries, Stages, Command
<1>5. SyncInv
  BY DEF SyncInv, WriteInv, ReloadInv, ReloadComes, OnWire, OnceOnWire, Answered, InWriter, AtRest
<1> QED
  BY <1>2, <1>3, <1>4, <1>5 DEF PlayersInv

\* A step of the syncs leaves the windows alone, a step of the windows the syncs.
LEMMA WindowsMove ==
  ASSUME [PlayersNext]_playersVars
  PROVE  \/ Tick \/ Check \/ UNCHANGED wvars
         \/ (\E p \in Players : notePlayerJoin(p)) /\ UNCHANGED <<clock, limiter>>
<1>1. ASSUME NEW p \in Players, NEW s \in Servers \cup {Nowhere}, LogLineJoins(p, s) \/ JoinPosted(p, s)
      PROVE  notePlayerJoin(p) /\ UNCHANGED <<clock, limiter>>
  BY <1>1 DEF LogLineJoins, JoinPosted, notePlayerJoin
<1>2. CASE WindowStep \/ UNCHANGED playersVars
  BY <1>2 DEF WindowStep, playersVars
<1>3. ASSUME NEW q \in Syncs,
             SyncBegins(q) \/ Written(q) \/ Refused(q) \/ Reloaded(q) \/ TimesOut(q)
      PROVE  UNCHANGED wvars
  BY <1>3 DEF SyncBegins, Written, Refused, Reloaded, TimesOut
<1>4. CASE BeginWrite \/ Fill \/ Rename \/ WriteFails \/ Reload \/ ReloadFails
  BY <1>4 DEF BeginWrite, Fill, Rename, WriteFails, Reload, ReloadFails
<1>5. CASE AgentLost \/ AgentBack
  BY <1>5 DEF AgentLost, AgentBack
<1> QED
  BY <1>1, <1>2, <1>3, <1>4, <1>5 DEF PlayersNext

LEMMA NextPlayersInv == PlayersInv /\ [PlayersNext]_playersVars => PlayersInv'
<1> SUFFICES ASSUME PlayersInv, [PlayersNext]_playersVars PROVE PlayersInv'
  OBVIOUS
<1>1. LimiterInv /\ MonitorInv /\ SyncTypes /\ SyncInv
  BY DEF PlayersInv
<1>2. LimiterInv'
  <2>1. Tick \/ Check \/ UNCHANGED <<clock, limiter>>
    BY WindowsMove DEF wvars
  <2> QED
    BY <1>1, <2>1, LimiterStep
<1>3. MonitorInv'
  <2>1. Tick \/ UNCHANGED <<clock, monitor>> \/ \E p \in Players : notePlayerJoin(p)
    BY WindowsMove DEF wvars, Check
  <2> QED
    BY <1>1, <2>1, MonitorStep
<1>4. SyncTypes' /\ SyncInv'
  BY <1>1, SyncTypesStep, SyncStep
<1> QED
  BY <1>2, <1>3, <1>4 DEF PlayersInv

LEMMA AlwaysPlayersInv == PlayersSpec => []PlayersInv
BY InitPlayersInv, NextPlayersInv, PTL DEF PlayersSpec

\* Types of the windows, the tracker and the syncs (analytics/src/index.ts,
\* players.ts, moderation.routes.ts): numbers, counts and alarms stay within what
\* was let through and noted.
THEOREM PlayersTypes == PlayersSpec => []PlayersTypeOK
<1>1. PlayersInv => PlayersTypeOK
  BY DEF PlayersInv, LimiterInv, MonitorInv, SyncTypes, PlayersTypeOK, WTypeOK, Verdicts
<1> QED
  BY <1>1, AlwaysPlayersInv, PTL

\* The rate limiter (RateLimiter.check) lets no window see more than Limit requests,
\* refuses until the moment it named and lets the next one through from then on,
\* for any limit, window and times of requests.
THEOREM LimiterKeepsItsWord == PlayersSpec => []LimitIsExact
<1>1. PlayersInv => LimitIsExact
  BY LimiterIsExact DEF PlayersInv
<1> QED
  BY <1>1, AlwaysPlayersInv, PTL

\* The join-flood monitor (JoinFloodMonitor.record) judges every join as all joins
\* ever noted would have it judged, and raises as many alarms as there were floods.
THEOREM FloodsAreTrue == PlayersSpec => []FloodIsTrue
<1>1. PlayersInv => FloodIsTrue
  BY DEF PlayersInv, MonitorInv
<1> QED
  BY <1>1, AlwaysPlayersInv, PTL

\* Once all syncs are done and nothing has failed, the game server runs with the
\* list on its disk, for any number of syncs in any order (moderation.routes.ts).
THEOREM QuietServersAreLoaded == PlayersSpec => []QuietIsLoaded
<1>1. PlayersInv => QuietIsLoaded
  BY QuietFollows DEF PlayersInv
<1> QED
  BY <1>1, AlwaysPlayersInv, PTL

=============================================================================
