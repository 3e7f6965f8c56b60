----------------------------- MODULE WorldFiles -----------------------------
(***************************************************************************)
(* The files of a world: StreamWorldArchive and RestoreWorldArchive of the *)
(* agent (internal/backup), handleRestore, and BackupEngine's restore with *)
(* its route.                                                              *)
(*                                                                         *)
(* The agent carries out one command at a time, but an archive is produced *)
(* by a goroutine that writes into a pipe and can outlive its command, and *)
(* the server process goes on writing until it is gone.  Files are read    *)
(* and replaced one by one.                                                *)
(***************************************************************************)
EXTENDS Integers, FiniteSets

CONSTANTS
  NumFiles,    \* files a world can have, in the order of filepath.Walk
  MaxVersion,  \* bound: times the server writes a file
  MaxBackups,  \* bound: backup commands
  MaxDeaths    \* bound: deaths of the agent

ASSUME WorldFilesAssumption ==
  /\ NumFiles \in Nat \ {0} /\ MaxVersion \in Nat \ {0}   \* there is a world
  /\ MaxBackups \in Nat /\ MaxDeaths \in Nat

Files == 1..NumFiles
Backups == 1..MaxBackups
Foreign == 0    \* the archive a downloadUrlOverride names
Absent == 0
Torn == -1      \* truncated, not written to the end
Content == -1..MaxVersion
Nothing == [f \in Files |-> Absent]
NoObject == -1

VARIABLES
  r2,        \* credentials are configured; never changes
  connected, \* the tunnel is up
  disk,      \* what each file holds: the number of the write it is from
  version,   \* writes so far
  proc,      \* the server process: "up", "stopping", "down"
  busy,      \* the command in progress, its backup, the file it is at
  producer,  \* per backup: "none", "walking", "broken", "eof"
  next,      \* per backup: the file the goroutine is at
  piped,     \* per backup: what it has written into the pipe, while that matters
  pipe,      \* per backup: "open", "closed" at the reading end, "abandoned"
  bucket,    \* archives that can be downloaded
  done,      \* backups reported done: their records are COMPLETED
  deaths,
  had,       \* history, per backup: the files there were when it began
  restored,  \* history: the archive of the last restore, if it was reported done
  since      \* history: files the server wrote since the last restore began

vars == <<r2, connected, disk, version, proc, busy, producer, next, piped, pipe, bucket,
          done, deaths, had, restored, since>>

stream == <<producer, next, piped, pipe>>
history == <<had, restored, since>>

Idle == [command |-> "none", of |-> NoObject, at |-> 0]

TypeOK ==
  /\ r2 \in BOOLEAN /\ connected \in BOOLEAN
  /\ disk \in [Files -> Content] /\ version \in 0..MaxVersion
  /\ proc \in {"up", "stopping", "down"}
  /\ producer \in [Backups -> {"none", "walking", "broken", "eof"}]
  /\ pipe \in [Backups -> {"open", "closed", "abandoned"}]
  /\ DOMAIN bucket \subseteq Backups \cup {Foreign}
  /\ done \subseteq Backups
  /\ restored \in Backups \cup {Foreign, NoObject}

Init ==
  /\ r2 \in BOOLEAN
  /\ connected = TRUE
  /\ disk = [Nothing EXCEPT ![1] = 1] /\ version = 1
  /\ proc = "up"
  /\ busy = Idle
  /\ producer = [b \in Backups |-> "none"]
  /\ next = [b \in Backups |-> 1]
  /\ piped = [b \in Backups |-> Nothing]
  /\ pipe = [b \in Backups |-> "closed"]
  /\ bucket = [b \in {Foreign} |-> disk]
  /\ done = {} /\ deaths = 0
  /\ had = [b \in Backups |-> {}]
  /\ restored = NoObject /\ since = {}

Present == {f \in Files : disk[f] # Absent}

-----------------------------------------------------------------------------
(* The server process                                                       *)

\* It writes a file, also on its way out.
Save(f) ==
  /\ proc # "down"
  /\ version < MaxVersion
  /\ version' = version + 1
  /\ disk' = [disk EXCEPT ![f] = version + 1]
  /\ since' = since \cup {f}
  /\ UNCHANGED <<r2, connected, proc, busy, stream, bucket, done, deaths, had, restored>>

ProcessEnds ==
  /\ proc # "down" /\ proc' = "down"
  /\ UNCHANGED <<r2, connected, disk, version, busy, stream, bucket, done, deaths, history>>

\* A START command, when no other is in progress.
ProcessStarts ==
  /\ proc = "down" /\ busy = Idle /\ connected
  /\ proc' = "up"
  /\ UNCHANGED <<r2, connected, disk, version, busy, stream, bucket, done, deaths, history>>

-----------------------------------------------------------------------------
(* StreamWorldArchive: the goroutine                                        *)

BackupBegins(b) ==
  /\ connected /\ busy = Idle
  /\ producer[b] = "none" /\ \A o \in 1..(b - 1) : producer[o] # "none"
  /\ Present # {}
  /\ busy' = [command |-> "backup", of |-> b, at |-> 0]
  /\ producer' = [producer EXCEPT ![b] = "walking"]
  /\ pipe' = [pipe EXCEPT ![b] = "open"]
  /\ had' = [had EXCEPT ![b] = Present]
  /\ UNCHANGED <<r2, connected, disk, version, proc, next, piped, bucket, done, deaths, restored, since>>

\* The next file goes into the pipe.
WalkFile(b) ==
  /\ producer[b] = "walking" /\ next[b] \in Files /\ pipe[b] = "open"
  /\ piped' = [piped EXCEPT ![b][next[b]] = disk[next[b]]]
  /\ next' = [next EXCEPT ![b] = @ + 1]
  /\ UNCHANGED producer

\* Mutation: the pipe is closed as after a complete walk.
WalkStopsShort(b) ==
  /\ producer[b] = "walking"
  /\ producer' = [producer EXCEPT ![b] = "eof"]
  /\ UNCHANGED <<next, piped>>

\* A file cannot be read, or changes its size under the reader; or the reading
\* end is closed.  CloseWithError, not Close: the reader sees an error.
WalkBreaks(b) ==
  /\ producer[b] = "walking" /\ pipe[b] # "abandoned"
  /\ producer' = [producer EXCEPT ![b] = "broken"]
  /\ piped' = [piped EXCEPT ![b] = Nothing]
  /\ UNCHANGED next

WalkEnds(b) ==
  /\ producer[b] = "walking" /\ next[b] \notin Files /\ pipe[b] = "open"
  /\ producer' = [producer EXCEPT ![b] = "eof"]
  /\ UNCHANGED <<next, piped>>

Producer(b) ==
  /\ WalkFile(b) \/ WalkBreaks(b) \/ WalkEnds(b)
  /\ UNCHANGED <<r2, connected, disk, version, proc, busy, pipe, bucket, done, deaths, history>>

-----------------------------------------------------------------------------
(* StreamWorldArchive: the caller                                           *)

\* The upload, or the copy into a temporary file, has read to the end; the answer
\* of the upload, or the agent's own, may be lost.
ArchiveEnds(b) ==
  /\ busy.command = "backup" /\ busy.of = b /\ producer[b] = "eof"
  /\ busy' = Idle
  /\ pipe' = [pipe EXCEPT ![b] = "closed"]
  /\ bucket' = IF r2 THEN [o \in DOMAIN bucket \cup {b} |-> IF o = b THEN piped[b] ELSE bucket[o]]
                     ELSE bucket
  /\ \/ connected /\ done' = done \cup {b}
     \/ UNCHANGED done
  /\ piped' = [piped EXCEPT ![b] = Nothing]
  /\ UNCHANGED <<r2, connected, disk, version, proc, producer, next, deaths, history>>

\* Mutation: the transport leaves the body of a refused request open.
ArchiveAbandons(b) ==
  /\ busy.command = "backup" /\ busy.of = b /\ producer[b] # "eof"
  /\ busy' = Idle
  /\ pipe' = [pipe EXCEPT ![b] = "abandoned"]
  /\ UNCHANGED <<r2, connected, disk, version, proc, producer, next, piped, bucket, done, deaths, history>>

\* The upload is refused or breaks - the transport closes the pipe - or the
\* goroutine's error comes through it; a temporary file that cannot be created
\* closes the pipe, one that cannot be written leaves it as it is.  Nobody waits
\* for the goroutine.
ArchiveFails(b) ==
  /\ busy.command = "backup" /\ busy.of = b /\ producer[b] # "eof"
  /\ busy' = Idle
  /\ \/ pipe' = [pipe EXCEPT ![b] = "closed"]
     \/ ~r2 /\ producer[b] # "broken" /\ pipe' = [pipe EXCEPT ![b] = "abandoned"]
  /\ UNCHANGED <<r2, connected, disk, version, proc, producer, next, piped, bucket, done, deaths, history>>

-----------------------------------------------------------------------------
(* Restore                                                                  *)

\* The archives a restore of backup b may download: the one the request names, or
\* its own by a presigned URL; none of a record that is not COMPLETED.
prepareRestore(b, override) ==
  {o \in {b, Foreign} : b \in done /\ (override <=> o = Foreign)}

\* Without credentials the presigned URL is a stub, and nothing is dispatched.
executeRestore(b, override) ==
  IF r2 \/ override THEN prepareRestore(b, override) ELSE {}

\* The provider sends no command that an agent is not there for.
restoreBackup(b, override) ==
  IF connected THEN executeRestore(b, override) ELSE {}

\* handleRestore asks the process to stop and does not wait.
RestoreBegins(o) ==
  /\ busy = Idle
  /\ o \in DOMAIN bucket
  /\ busy' = [command |-> "restore", of |-> o, at |-> 1]
  /\ proc' \in IF proc = "up" THEN {"stopping", "up"} ELSE {proc}
  /\ restored' = NoObject /\ since' = {}
  /\ UNCHANGED <<r2, connected, disk, version, stream, bucket, done, deaths, had>>

\* POST /backups/:id/restore, with a downloadUrlOverride or without one.
RestoreRoute(b) ==
  \E override \in BOOLEAN : \E o \in restoreBackup(b, override) : RestoreBegins(o)

Extracting(f) == busy.command = "restore" /\ busy.at = f /\ f \in Files

\* One entry is extracted over what was there; the others stay.
Extract(f) ==
  /\ Extracting(f)
  /\ busy' = [busy EXCEPT !.at = @ + 1]
  /\ LET content == bucket[busy.of][f] IN
       /\ disk' = IF content = Absent THEN disk ELSE [disk EXCEPT ![f] = content]
       /\ since' = IF content = Absent THEN since ELSE since \ {f}
  /\ UNCHANGED <<r2, connected, version, proc, stream, bucket, done, deaths, had, restored>>

\* Mutation: the error of the copy is not looked at.
ExtractAnyway(f) ==
  /\ Extracting(f)
  /\ bucket[busy.of][f] # Absent
  /\ busy' = [busy EXCEPT !.at = @ + 1]
  /\ disk' = [disk EXCEPT ![f] = Torn]
  /\ UNCHANGED <<r2, connected, version, proc, stream, bucket, done, deaths, history>>

\* The download is refused or breaks, between two entries or within one: the
\* restore ends with the world half replaced.
ExtractBreaks(f) ==
  /\ Extracting(f)
  /\ busy' = Idle
  /\ disk' \in {disk} \cup {[disk EXCEPT ![g] = Torn] : g \in {h \in {f} : bucket[busy.of][h] # Absent}}
  /\ UNCHANGED <<r2, connected, version, proc, stream, bucket, done, deaths, history>>

RestoreEnds ==
  /\ busy.command = "restore" /\ busy.at \notin Files
  /\ busy' = Idle
  /\ \/ connected /\ restored' = busy.of
     \/ UNCHANGED restored
  /\ UNCHANGED <<r2, connected, disk, version, proc, stream, bucket, done, deaths, had, since>>

\* The agent dies: what it was at stays as it is.
AgentDies ==
  /\ deaths < MaxDeaths
  /\ deaths' = deaths + 1 /\ connected' = FALSE
  /\ busy' = Idle
  /\ producer' = [b \in Backups |-> IF producer[b] = "none" THEN "none" ELSE "broken"]
  /\ pipe' = [b \in Backups |-> "closed"]
  /\ disk' \in {disk} \cup {[disk EXCEPT ![f] = Torn] : f \in
                  {g \in Files : Extracting(g) /\ bucket[busy.of][g] # Absent}}
  /\ piped' = [b \in Backups |-> Nothing]
  /\ UNCHANGED <<r2, version, proc, next, bucket, done, history>>

\* The connection breaks or is made again; what the agent is at goes on.
Connection ==
  /\ connected' = ~connected
  /\ UNCHANGED <<r2, disk, version, proc, busy, stream, bucket, done, deaths, history>>

Next ==
  \/ \E f \in Files : Save(f) \/ Extract(f) \/ ExtractBreaks(f)
  \/ \E b \in Backups : BackupBegins(b) \/ Producer(b) \/ ArchiveEnds(b) \/ ArchiveFails(b)
  \/ \E b \in Backups : RestoreRoute(b)
  \/ Connection \/ RestoreEnds \/ ProcessEnds \/ ProcessStarts \/ AgentDies

\* Files are read and written, what is in the pipe is taken out of it, and its end
\* or its error is noticed.  An upload need not fail.
Fairness ==
  /\ \A b \in Backups :
       /\ WF_vars(Producer(b))
       /\ WF_vars(ArchiveEnds(b) \/ (producer[b] = "broken" /\ ArchiveFails(b)))
  /\ \A f \in Files : WF_vars(Extract(f) \/ ExtractBreaks(f))
  /\ WF_vars(RestoreEnds)

Spec == Init /\ [][Next]_vars /\ Fairness

-----------------------------------------------------------------------------
(* Properties                                                               *)

\* An archive in the bucket has every file there was when its backup began: a walk
\* that breaks off never leaves a shorter archive behind.  (archive.go:
\* CloseWithError on every error path.)
StoredIsWhole ==
  \A b \in Backups \cap DOMAIN bucket : \A f \in had[b] : bucket[b][f] # Absent

\* After a restore that was reported done every file of the archive is as it was
\* when archived, but for those the server has written since.  (restore.go.)
RestoredIsArchive ==
  restored # NoObject =>
    \A f \in Files \ since :
      bucket[restored][f] # Absent => disk[f] = bucket[restored][f]

\* Caller and goroutine do not wait for each other for ever.  The goroutine of
\* every archive ends, also when the upload ended before it, unless the temporary
\* file could not be written, which leaves it in its pipe; and no command stays in
\* progress, kept there by the pipe of its own archive.  (archive.go: the pipe.)
TransfersEnd ==
  /\ \A b \in Backups :
       producer[b] = "walking" ~>
         producer[b] # "walking" \/ (~r2 /\ pipe[b] = "abandoned")
  /\ busy # Idle ~> busy = Idle

\* Files are replaced only when the server process is gone.  (client.go:530: "Stop
\* simulated/real process before replacing world files when possible.")
StoppedBeforeReplaced ==
  [][\A f \in Files : Extract(f) /\ disk' # disk => proc = "down"]_vars

=============================================================================
