# BedrockOps: a TLA+ verification project

BedrockOps is a control plane for Minecraft Bedrock Dedicated Servers (BDS). An
API process (TypeScript) keeps the records, a Go agent on every host node
starts and stops the server processes, archives and restores their worlds, and
the two talk over one outbound WebSocket per node. This directory holds TLA+
modules translated from that code, the TLC runs that check them on small
instances, and proofs checked by TLAPS that carry the main results to every
value of the constants.

Contents: [1 The system](#1-the-system) · [2 Modules and code](#2-modules-and-code)
· [3 Runs](#3-runs) · [4 Fairness](#4-fairness) · [5 Proofs](#5-proofs) ·
[6 What the code does otherwise](#6-what-the-code-does-otherwise) ·
[7 Not modelled](#7-not-modelled-and-simplified) ·
[8 Plan](#8-plan) · [9 How to run](#9-how-to-run)

## 1 The system

```
 web console, Discord bot ──HTTP──▶ API routes ──▶ HostProvider ──▶ tunnel gateway
        ▲ WebSocket                    │                │                 │ WebSocket
   client hub ◀── log lines ─ ─ ─ ─ ─ ─│─ ─ ─ ─ ─ ─ ─ ─ │─ ─ ─ ─ ─ ─ ─ ─ ─┤
     background worker ──▶ BackupEngine │                │ (no tunnel)      ▼
                 │              │       ▼                ▼           Go agent: tunnel client
                 └──────────────┴──▶ memory db     local runner        │          │
                                       │ flush                  process manager   backup / restore
                                    Prisma, JSON file                  │          │
                                                                  BDS processes ── world on disk
```

Paths are relative to `src/`. `PROJECT.json` lists all components with their
files and status; the table says what each of the stateful ones keeps.

| Component | State | Operations | Talks to |
|---|---|---|---|
| Process manager (`apps/agent/internal/lifecycle`) | per server: state, generation, `cmd`; marks of intentional stops | Start, Stop (graceful or forced), Restart; a goroutine per process that waits for its exit; two pump goroutines per process | the OS; `onLog`, `onExit` of the tunnel client |
| Tunnel client (`apps/agent/internal/tunnel`) | the current connection; the command being executed | dial loop, read loop, command handlers, crash and log frames | process manager, backup, restore, RCON, file writers; the gateway |
| World archive, restore (`apps/agent/internal/backup`) | files on disk, an upload in progress | stream an archive to R2 or to a temporary file; download and extract | R2, the world of the running server |
| Tunnel gateway (`apps/api/src/ws/agentGateway.ts`) | a session per node, pending commands with timers per session | connection, close, frame handlers; `sendCommand`; `isNodeConnected` | agent; provider; db records; client hub; player tracker |
| Host provider (`packages/bedrock/src/provider.ts`) | none | picks tunnel or fallback, turns answers into results | gateway, local runner |
| Server, backup, provisioning, user, moderation routes (`apps/api/src/routes`) | none of their own; they write records after an await | power, create, delete, backup, pin, restore, control, setup, allowlist sync, users | provider, engines, db |
| BackupEngine (`packages/backups`) | backup records | trigger, prepare, complete, fail, retention, restore | R2 presigner, db |
| Background worker (`apps/worker`) | a timer | sweep over all servers, with retention | BackupEngine, provider |
| Local runner (`packages/bedrock/src/localRunner.ts`) | per server: process, status | start, stop with a 2 s kill timer, restart, exit listener, ping | OS |
| Port and DNS allocation (`packages/pipelines`) | pool of ports, leases, local DNS records | allocate, release; the setup pipeline | DNS provider over HTTP |
| Persistence (`packages/db`) | the in-memory store; a flush in progress; the JSON file | hydrate, flush, the write-through middleware, save | Prisma, a JSON file |
| Rate limit, join flood (`packages/analytics`, API) | time stamps per key | hit, record a join | routes, log frames |
| Players, allowlist (`packages/moderation`, `apps/agent/internal/allowlist`) | the server of each player; the file on the host | record a join, plan, sync, reload | routes, tunnel, RCON |
| RCON clients (`packages/bedrock/src/rcon.ts`, `apps/agent/internal/rcon`) | request ids, buffers, timers | execute | the game server |
| Client hub and console page (`apps/api/src/ws`, `apps/web`) | sockets and their topics; the stream, pill and log of the page | subscribe, broadcast; open, dispose, reconnect | gateway, browser |
| Pages and API client (`apps/web/src/pages`, `apps/web/src/lib/api-client.ts`) | what a page shows, the buttons in use, a timer; the token of the tab | open, load, poll, act, sign in and out | routes, over HTTP |

### What is hard here, and what makes it correct

* **Process manager.** A stop returns before the process has ended, so a new
  process can run beside the old one; the old one's late exit must neither
  take down the new one nor be taken for it. *Correct*: no running process is
  forgotten; every exit is noticed; ONLINE is backed by the latest Start.
* **Output pumps.** `cmd.Wait` closes the pipes while pumps may still read.
  *Correct*: logs in order without gaps, none after the exit report; the exit
  is reported whatever the pumps met.
* **Tunnel.** Each side notices a broken link in its own time, answers arrive
  late, commands are given up and carried out afterwards. *Correct*: sessions
  point to the newest socket; no command runs twice or overtakes another; an
  answer settles its own call; no call is forgotten; a crash is counted once.
* **Routes.** A status is written after an await, when it may be stale.
  *Correct*: undisturbed, record and agent agree, whatever processes still exit;
  ONLINE has a cause.
* **Backups.** Three kinds of creators, retention that runs while backups do,
  answers after the timeout, a save hold that must be released. *Correct*:
  COMPLETED tells the truth, finished records are final, retention keeps the
  newest, nothing stays RUNNING as long as the API lives, a held world is archived
  whole.
* **World files.** A producer goroutine writes into a pipe whose reader may end
  first; extraction begins while the stopped process may still write.
  *Correct*: an archive is whole or none; a restore reported done left the
  world as the archive; neither end of the pipe waits for ever.
* **Local runner.** Exit handlers and a kill timer read shared state when they
  run. *Correct*: no process is lost, OFFLINE means stopped, nobody is killed
  without a cause.
* **Allocation.** A lease before awaited DNS calls, releases and restarts in
  between. *Correct*: no port is given twice or lost; live DNS is live.
* **Persistence.** Flushes over live arrays that other requests change, a gate
  that lets waiters through together, a crash at any point. *Correct*: once
  flushes have ended what was answered is stored, and never an older version over
  a newer one; every flush ends.
* **Sliding windows, players.** Edges of windows; concurrent allowlist syncs.
  *Correct*: the limit holds in every window; the list on disk is the one the
  game server has loaded.
* **RCON.** Ids that start again, packets of others, silence. *Correct*: a
  success is the answer to one's own command; every call ends.
* **Live stream.** Late closes of disposed streams, reconnects, lines in flight.
  *Correct*: the page shows lines of its server in order, and tells the truth
  about its connection.

* **Pages.** Loads on a timer, after actions and on demand overlap, and their
  answers come in any order, also after the page is about something else.
  *Correct*: what an action changed stays shown; a page with a timer shows the
  present state in the end; no button stays disabled.

`PROJECT.json` `hazards` lists the single spots, each with the properties that
watch it or the reason none does.

## 2 Modules and code

| Module | Models | Relation |
|---|---|---|
| `Supervisor` | *abstract*: what the process manager promises | status, wanted child, living children, dismissed children |
| `AgentLifecycle` | `manager.go`: Start, Stop, Restart, the waiting goroutine | refines `Supervisor` |
| `ProcessPump` | `manager.go`: pipes, pumps, `cmd.Wait`, `pumps.Wait` for one process | opens up what `WaitReturns` of `AgentLifecycle` does in one step |
| `RemoteCall` | *abstract*: a call carried out and answered at most once | |
| `AgentTunnel` | `client.go`, `agentGateway.ts`, power and delete routes, `crash.ts`, the provider | refines `RemoteCall` |
| `BackupJobs` | backup routes, worker sweep, `BackupEngine`, `handleBackup` | composed with `RemoteCall`, which it instantiates as its tunnel |
| `WorldFiles` | `archive.go`, `restore.go`, `handleBackup`, `handleRestore`, the restore route and engine | opens up what `BeginBackup`/`EndBackup` of `BackupJobs` do in two steps, and adds restore |
| `LocalHost` | `localRunner.ts`, the provider's fallback, power, rcon, status routes, stop-all, the broadcaster | the tunnel as "answered or not", which `AgentTunnel` opens up |
| `PrismaFlush` | `packages/db`: flush, hydration, JSON store; the write-through middleware; user and moderation routes around it | |
| `Provisioning` | `packages/pipelines`: pool, DNS, allocator, setup pipeline; provisioning routes; server create and delete | |
| `Windows` | `packages/analytics`: `RateLimiter`, `JoinFloodMonitor`; `joinFlood.ts`, the rate-limit middleware | extended by `Players` |
| `Players` | `players.ts`, allowlist routes, `allowlist/write.go` and the reload | the tunnel's order from `AgentTunnel` |
| `Rcon` | `rcon.ts` and `internal/rcon/client.go` | |
| `LiveStream` | `clientHub.ts`, `ws/router.ts`, `ws-client.ts`, `console.tsx` | |
| `Pages` | `pages/*.tsx` but the console and the marketplace, `api-client.ts`, `AppShell.tsx` | one tab of a browser, beside the console page of `LiveStream` |
| `AgentLifecycleProofs`, `AgentTunnelProofs`, `BackupJobsProofs`, `ProvisioningProofs`, `PrismaFlushProofs` | theorems | of the module of that name |
| `GameServerProofs` | theorems | of `ProcessPump` and `Rcon` |
| `PanelProofs` | theorems | of `LocalHost`, `LiveStream` and `Pages` |
| `HostFilesProofs` | theorems | of `WorldFiles`, `Windows` and `Players` |
| `MCGameServer`, `MCPrismaFlush`, `MCLocalHost`, `MCPanel` | instances for TLC | |

The parts meet at abstract boundaries. `AgentTunnel` sees of the process
manager the state `GetState` would answer, the processes that have not been waited
for and the mark of the last Stop; `BackupJobs` sees of the tunnel
only `RemoteCall`, which `AgentTunnel` is shown to implement, plus the order in
which the agent takes commands (`ExecutedInOrder`). That keeps each state space
small while the chain of refinements ties them together.

**AgentLifecycle.** Every critical section of `Manager.mu` is one action.
`StartSection` is `Start` (early return when ONLINE, `generation++`, the failing
returns, the simulated and the live start); `StopSection` is `Stop`;
`RestartStop` and `RestartStart` are `Restart`, with the mutex released in
between; `Die`, `WaitReturns`, `Settle`, `CallOnExit` are the child and its
goroutine. `cmd` names a process by its generation, so the pointer comparison of
the code is an equality of generations. `asked` is a history variable.

**ProcessPump.** `pipe` is the kernel's buffer, `scanner` what a pump has read
and not yet handed on, `onLog` what the handler was given. `CmdWait` closes both
read ends when the child has exited; a pump with an empty scanner then sees end
of input although its pipe may hold lines. An over-long line ends its pump.

**AgentTunnel.** On the agent: `Dial`, `DialReturns`, `DialFails`, `ReadFails`
are the loop of `Run` and `session`; `Receive`, `HandleCommand`, `Respond` are
`readLoop` and the handlers, on that same goroutine. `procs` is what the manager
knows of the processes of the one server: the generation, the process `cmd` names,
the mark of an intentional stop, and the processes still to be waited for.
`Started`, `Stopped` and `Restarted` are the outcomes of the three requests;
`ProcessExits` is the goroutine of any of these processes, the one of a superseded
process included: it turns the state only if `cmd` still names it, and takes every
exit without its mark for a crash. `OnProcessExit` is the report. In the API, one
action is one event handler or one part of a route between two awaits:
`HandleConnection`, `OnClose`, `ProcessFrame`, `CommandTimeout`, `SendCommand`, `RunLocally`, `RouteGoesOn`,
`DeleteServer`. `CutLink` breaks a link; frames in flight stay readable by the
side that has not noticed yet, what is written afterwards is lost.

**BackupJobs.** A job is a backup record and the asynchronous function that
drives it. `RouteTrigger`, `PinTrigger`, `SweepStart` create one; `Dispatch`
follows the await of the presigner; `RouteSettle`, `SweepSettle` follow the await
of the provider, the latter with retention and the next iteration of the sweep.
`BeginBackup` and `EndBackup` are `handleBackup` before and after the archive; a
hold can be obeyed although its answer times out, and is then never resumed.
`alive` is the API process: the route throws out of an `async` Express 4 handler when
its record was pruned, which ends the process and every function under way.

**WorldFiles.** `WalkFile`, `WalkBreaks`, `WalkEnds` are the producer goroutine of
`StreamWorldArchive`, `ArchiveEnds` and `ArchiveFails` the caller that uploads or
copies; `pipe` says what became of the reading end. `RestoreRoute` goes through
`prepareRestore`, `executeRestore` and the provider; `Extract`, `ExtractBreaks`,
`RestoreEnds` are `RestoreWorldArchive` file by file. A file's content is the
number of the write it comes from, so a mixture of two backups is visible.

**LocalHost.** One action is what runs between two awaits: `LocalStart`,
`LocalStop`, the timer, the exit event, the answers to routes. `mine` are the
processes of the API process that runs now; a restart of the API forgets handles
and timers while the children live on. `DeleteRoute` records OFFLINE and stops
nothing; from then on no route finds the server, and only what waits goes on.

**PrismaFlush.** A flush is a sequence of upserts, each sent with the values of
that moment and carried out later; `NextUpsert` iterates over the live arrays.
`Gate`, `FinishFlush`, `FailFlush` are `flushInFlight` and its `finally`. Rows
carry a version instead of their fields; one field is followed beside it, the XUID of a
row of the moderation ledger, the only column the code empties: `Anonymise` deletes it
in memory, and `Stores` leaves it in Postgres, as an `undefined` in an update does.
Requests are those that change a user or an action around an await, and one kind
without. `Crash` is the end of the process and the next `initializeDatabase`.

**Provisioning.** `Network`, `Setup`, `DeployFullStack` run up to the first await
(`Allocate`); `Post`, `PostFails`, `StubReturns` are the DNS calls; `Completed`
what follows them; `SetupEnds`, `SetupRejects`, `Deployed` the agent's part.

**Windows, Players.** The windows keep `granted` and `joins`, everything that ever
happened, beside what the code remembers; the properties compare the two. A sync
goes from the route over the wire (in order, one command at a time) to a
temporary file, the rename and the reload.

**Rcon.** Both clients over one nondeterministic game server; a packet is what the
framing code returns, with id, kind and whether its type and size are as they
should be.

**LiveStream.** A stream is one call of `openServerStream`: its flag, its socket
and timer, its entry in the hub and the lines on their way to it.

**Pages.** `site` describes the pages by what tells them apart here: what they are
about, whether their first load checks the token once more before it begins and is
given up when the page is left by then, and what can be done there: which buttons a
request marks until it is done and whether `load()` follows it. One slot of `asks`
is one `apiFetch` on its way, from the check of the token (`Passes`, `Refuse`) over the
API (`Serve`) to the answer (`Answered`, `Show`, `Fail`); the GETs of a `Promise.all` are
one request. The state of the API is its version. Going to another page
(`Unmounted`) leaves the requests under way and drops their answers; `Select`
changes what the page is about, under requests that go on. The diagnostics page opens without
a subject: its first request lists the servers (`Lists`, `Listed`), and if that fails
the page has no server, no interval and nothing to refresh (`Ready`) until the operator
chooses or leaves. `promised` is a history
variable: the latest change the operator made here that the page has shown.

## 3 Runs

All runs use `CHECK_DEADLOCK FALSE`: operators may stop asking and the bounded
counters run out, and then the modelled system really has nothing left to do.
What must not get stuck is stated as liveness instead.

| Run | Instance | Checks |
|---|---|---|
| `lifecycle` | 1 server, 1 caller, 3 Starts, Starts that may fail, fair | `NoOrphan`, `DeadIsNoticed`, `Supervises` (refinement) |
| `game_server` | output: 2 streams, 3 lines each, pipe of 2, over-long lines; console: 2 calls of each client, ids up to 8 starting at 1 and at 8; fair | `NoGap`, `NoLogAfterExit`, `NothingIsStuck`, `AnswerIsOwn`, `ExecutesEnd` |
| `tunnel_safety` | 2 connections, 2 requests out of START/STOP/RESTART, 1 crash, failures | `SessionIsNewest`, `CrashCountedOnce`, `ExecutedInOrder`, `WaitingIsPending`, `CallsAreRemoteCalls` (refinement), `AgreesUndisturbed` |
| `backup_jobs` | 2 servers, 2 jobs, retention 1, 1 save, 1 fault, fair | `CompletedIsTrue`, `NewestAreKept`, `HeldIsWhole`, `RunsEnd`, `BackupsAreRemoteCalls` (refinement) |
| `flush` | 4 rows in 2 tables and the audit log, 3 requests, 3 versions, 1 crash or 1 failing upsert, both modes, fair | `SettledIsDurable`, `AloneUnlessHerd`, `NoStaleOverwrite`, `FlushesEnd` |
| `provisioning` | 2 servers, 2 ports, 1 label, 2 allocations, 1 restart, with and without Cloudflare | `ClaimIsLeased`, `LeaseIsAccountedFor`, `LiveIsTrue` |
| `local_host` | 3 processes, 2 waiting requests, 1 restart of the API | `UntoldIsHeld`, `OfflineIsStopped`, `KillHasCause` |
| `world_files` | 2 files, 2 writes, 2 backups, 1 death of the agent, with and without R2, fair | `StoredIsWhole`, `RestoredIsArchive`, `TransfersEnd` |
| `live_stream` | 2 servers, 3 streams, 2 lines, 1 break or restart, fair | `ShownInOrder`, `OpenIsReal`, `StreamSettles` |
| `panel` | windows and allowlist: 2 players, limit and threshold 2, window 2 within 5 ticks, 3 requests, 3 joins, 2 syncs, 1 fault; pages: 2 subjects, 2 requests at a time, 2 changes, 2 moves of the operator, 1 failure, fair | `LimitIsExact`, `FloodIsTrue`, `QuietIsLoaded`, `ActionIsShown`, `CatchesUp` |
| `backup_unkept` | 1 server, 1 job, expected to fail | `CompletedIsKept`, see [section 6](#6-what-the-code-does-otherwise) |
| `flush_anonymised` | the instance of `flush`, expected to fail | `AnonymisedIsWritten`, see there |

What each one shows:

* `lifecycle`: whatever the order of Starts, Stops, Restarts and late exits, no
  process runs on that nobody signalled and no ONLINE server stands for.
* `game_server`: what is lost at the end of a process is a tail, never a middle, and
  neither lines nor the exit get stuck behind each other. On the console neither split,
  unasked, ill-formed nor missing packets are taken for an answer, also where the ids
  start again.
* `tunnel_safety`: connections that break and overlap leave the session map, the
  pending calls and the order of commands intact. Where nothing failed, was late or
  crashed, record and agent agree, however late the processes of earlier Starts exit.
  From the first CRASH frame on `AgreesUndisturbed` is silent, also about the one a
  superseded process causes beside a server that is ONLINE.
* `backup_jobs`: a record never says more than what happened, through timeouts,
  late answers, retention in between, and an agent that never answers again; every
  record is finished unless the API process ended.
* `flush`: the gate, the live iteration and the failure of a flush others wait for
  lose no answered change - but for a table an upsert was refused at, for
  flushes that run side by side, which happens only after two waited for one, and for
  a column that was emptied, of which `SettledIsDurable` says nothing and
  `flush_anonymised` the contrary. Refusals, also of every flush at the same row, leave
  no flush and no request that waits for one.
* `provisioning`: no interleaving with DNS calls leases a port twice, loses a
  lease, or claims DNS records that are not there.
* `local_host`: until an old exit event drops a new process's handle, the runner
  holds every process it was not told to end.
* `world_files`: an archive in the bucket has every file; a restore reported done
  left the files of its archive, save those the server wrote since; goroutine and
  caller part.
* `live_stream`: switching servers, reconnecting and restarting never mix streams,
  and the stream of the page is subscribed or refused in the end.
* `panel`: both windows agree with the whole history at every edge; concurrent
  syncs end with the written list loaded, whichever wrote last; a page does not go
  back behind a change it has shown, and one with a timer ends up showing the
  present state of what it is about, whatever came late or failed.

Why the bounds are enough for what is asked:

* `lifecycle`: every table is indexed by the server and no action reads another
  server's entries; all calls come from the one goroutine that reads the tunnel.
  Three Starts give a process that is current, one superseded and still running,
  and one superseded and being settled, the most any property relates.
* `game_server`: a pipe that fills and blocks the child, a read that takes part of it,
  lines left when it is closed. On the console two calls at a time; the wrap of the ids
  falls between them. Starting the counters anywhere is bounded by `First`: at 1 and at
  the last id before the wrap. Output, the API's client and the agent's client share
  nothing: the guards of `MCGameServer` and its constraint `Separate` let one of the
  three move in each behaviour.
* `tunnel_safety`: the agent dials only after giving the last connection up, so an
  old and a new socket is the overlap there can be; two requests on the same or
  on different connections, answered in either order; a crash anywhere. A START and a
  RESTART leave a superseded process whose exit comes late. Three requests are the least
  that leave a process marked, one superseded and one current (START, RESTART, STOP):
  those, on one connection, are in `AgentTunnel_exits.cfg`, and `UndisturbedAgrees` is
  proved for any number of both.
* `backup_jobs`: two jobs with retention 1 can push each other out while still
  RUNNING, so that a route throws; two servers give the case where they must not. One save tells a torn
  archive from a whole one. The proofs lift these bounds for the safety
  properties.
* `flush`: three requests are the least with which two wait for one flush, after
  which two run side by side. The rows are an owner, two users with one address
  and a ban with an XUID; three versions let a row be made, changed, and changed while
  it is in flight. `OneFault` of `MCPrismaFlush` leaves out what a crash and an outage do
  together, and crashes after the last request; a crash clears all that is remembered of
  flushes, so that what follows it is a shorter behaviour from another store.
* `provisioning`: a pool as large as the number of servers is exhausted and reused;
  two concurrent allocations, for one server or for two.
* `local_host`: one process told to stop, one started while its timer runs, one
  after that. The waiting requests are interchangeable, which `MCLocalHost`
  states as a symmetry; the run has no liveness property.
* `world_files`: two files are the least that can be mixed; two backups the least
  where one goroutine outlives its command into the next.
* `live_stream`: two disposed streams behind the page's own, lines in flight to each.
* `panel`: times run beyond two windows; limits are reached and passed. Two
  requests of a tab are the least that can overtake each other; two changes the least
  of which the older can come back; two moves open a page and change what it is
  about, or leave it. Windows, syncs and pages share no variable: the constraint
  `Separate` and the guards of `MCPanel` explore them one beside the other instead of
  their product.

Each property of a passing run has a mutant in `PROJECT.json`: an operator of the
module (marked *Mutation* or *Mutant*) that misreads the code the way a plausible
bug would, and under which TLC finds that property violated.

`TypeOK` of every module, `FinishedIsFinal` of
`BackupJobs` and `ButtonsAreTrue` of `Pages` hold in the same instances, and most are
proved; they are not listed with the runs, where each
property is about a hazard. Further configurations beside the runs:

| Configuration | Result |
|---|---|
| `AgentLifecycle_safety.cfg` | passes, with Starts that may fail: types, `OnlineIsBacked`, `NoOrphan`, `HushedOnlyIfAsked`, `OnlyOwnExitEndsOnline`, `OfflineIsFinal` (all proved) |
| `AgentLifecycle_live.cfg` | passes: with interrupts that fail; `ExitIsReported` too |
| `AgentTunnel_exits.cfg` | passes: three requests on one connection, `AgreesUndisturbed` |
| `AgentTunnel_calls.cfg` | passes: under fairness every call ends, answered or given up |
| `AgentLifecycle_falsecrash.cfg`, `AgentLifecycle_lostkill.cfg`, `ProcessPump_lostlines.cfg`, `AgentTunnel_unlisted.cfg`, `AgentTunnel_lostcrash.cfg`, `BackupJobs_abandoned.cfg`, `PrismaFlush_poisoned.cfg`, `PrismaFlush_torn.cfg`, `LocalHost_uncleaned.cfg`, `WorldFiles_running.cfg`, `Rcon_parts.cfg` | a counterexample each, see [section 6](#6-what-the-code-does-otherwise) |

## 4 Fairness

| Assumed | Where | Because |
|---|---|---|
| Goroutines past their blocking point go on | `AgentLifecycle`, `ProcessPump` (so in `MCGameServer`) | the Go scheduler is fair and the mutex is held only for bounded sections |
| A killed process ends | `AgentLifecycle` | SIGKILL; nothing is assumed for an interrupt |
| The agent dials again, reads on, its handlers return | `AgentTunnel` (`FairSpec`) | `Run` loops until its context ends; RCON commands and dials have deadlines. Archive, upload and download of a backup or a restore have none, so a handler may take as long as they do: no run of `PROJECT.json` uses this assumption, only `AgentTunnel_calls.cfg` (whose requests are of the kind OTHER) and `AgentTunnel_lostcrash.cfg` (START) |
| Socket events are delivered, settled promises continue, timers fire | `AgentTunnel`, `BackupJobs`, `LiveStream`, `Rcon` (so in `MCGameServer`) | the event loop of Node; the deadlines of Go's connections |
| A backup call is answered or given up | `BackupJobs` | the 15 s timer of `sendCommand` |
| Postgres answers every statement, with a result or an error | `PrismaFlush` | the driver's own timeouts |
| Files can be read or fail, a pipe's reader reads on or closes | `WorldFiles` | the operating system, the HTTP transport |
| A tab's requests are answered or fail, its timers tick | `MCPanel` (only `CatchesUp` needs it) | the HTTP timeouts of the browser; the event loop |
| The API is started again | `LiveStream` | the service manager; only `StreamSettles` needs it |

Nothing is assumed of operators, of children that could write, exit or crash, of
links that could break, of a game server that could answer, or, in `BackupJobs`,
of the agent at all: `RunsEnd` holds even when it never answers, by the timer of the API. Weak fairness is
enough everywhere, since each of these actions, once enabled, stays enabled until
it or the alternative that replaces it is taken.

## 5 Proofs

All theorems are of the form `Spec => ...` for arbitrary constants; TLAPS checks
them to the last leaf. They assume what the modules' `ASSUME`s say of the
constants (bounds are natural numbers, `None` and its like are not in the sets)
and, only where stated, `~InterruptCanFail`. `PrismaFlush`
assumes besides that rows and requests are finitely many, as they are at any moment
of any execution, and that one user is seeded, as `seedDefaults` does.

In a module that models two components side by side, the specifications carry a
name of their own (`PumpSpec`, `RunnerSpec`, `PlayersSpec`, `PagesSpec`), so that one module of
proofs can extend both.

| Theorem | Of | Says |
|---|---|---|
| `TypeCorrect` | AgentLifecycle | types |
| `OnlineIsAlwaysBacked` | | an ONLINE server has the unprocessed, unasked child of its latest Start |
| `NeverHushedUnasked` | | an exit is reported as intentional only if that process was asked to end |
| `OnlyOwnExit` | | only its own latest process turns an ONLINE server to ERROR unasked |
| `NoOrphanEver` | with `~InterruptCanFail` | a running process nobody signalled backs its ONLINE server |
| `OfflineStays` | | a stopped server stays OFFLINE until started, unless a Start failed since its process was spawned |
| `ManagerSupervises` | | refinement of `Supervisor`, step by step |
| `LogsHaveNoGap`, `ExitComesLast` | ProcessPump | the order of logs, and of logs and the exit |
| `AnswersAreOwn`, `RconTypes` | Rcon | a success is an answer to the call's own command, on an authenticated connection |
| `SessionsAreNewest` | AgentTunnel | the session map never points back to an old socket |
| `OnlineIsCaused` | | the record is ONLINE only after a START or RESTART that succeeded |
| `WaitingIsAlwaysPending` | | a route waits exactly for the entries its session has |
| `CallsAreRemote` | | refinement of `RemoteCall`, which `BackupJobs` builds on |
| `ExecutionIsInOrder` | | no command runs twice or overtakes another, across reconnects |
| `CrashesCountOnce`, `TunnelTypes` | | crash frames and crash count; types |
| `UndisturbedAgrees` | | undisturbed, record and agent agree once nothing is under way, whatever processes exit |
| `BackupTypes` | BackupJobs | types |
| `CompletedTellsTrue`, `FinishedStays` | | records tell the truth and are final |
| `RetentionKeepsNewest` | | a pruned record has at least Keep newer ones of its server |
| `HeldArchiveIsWhole`, `NoHoldForNothing` | | an archive under an answered hold is whole; what a world that is held for nothing comes from |
| `BackupsCallRemotely` | | refinement of `RemoteCall` |
| `ClaimsStayLeased`, `PortsStayExclusive` | Provisioning | the port given to a server is its own until released |
| `NoLeaseIsLost` | | every lease has a record or a request still on its way |
| `LiveTellsTrue` | | live DNS has both its records |
| `RunnerHolds`, `OfflineMeansStopped` | LocalHost | no process is lost; OFFLINE means stopped, unless it was recorded for the agent's process or by a deletion |
| `TimersKillTheWrongOne` | | a timer kills only what was spawned while it was pending |
| `ArchivesAreWhole` | WorldFiles | an archive in the bucket has every file there was |
| `RestoresAreTrue` | | a restore reported done left the files as archived |
| `OnlyOneStream`, `OpenTellsTrue` | LiveStream | one socket per page, and what the pill says of it |
| `LogIsInOrder` | | the log of the page |
| `ShownStaysShown`, `TabInvariant` | Pages | a page does not go back behind a change it has shown; the invariant, with types |
| `NoButtonIsStuck` | | a disabled button has its request under way, and a form never two |
| `SettledIsStored` | PrismaFlush | when all flushes are over, Postgres has what memory held at the last answer, but for emptied columns |
| `GateKeepsAlone` | | two flushes run side by side only after two requests waited for one |
| `NothingGoesBack`, `FlushTypes` | | no stored row returns to an older version; types |
| `LimiterKeepsItsWord` | Windows, Players | the limit holds in every window, and the moment a refused caller is told is exact |
| `FloodsAreTrue` | | every join is judged as the whole history would have it |
| `QuietServersAreLoaded`, `PlayersTypes` | | the list on disk is the list loaded; types |

**Process manager.** `OnlineIsBacked` alone is not inductive: a Settle of an old
process could clear `cmd` or turn the state, were it not known that `cmd` names a
child whose exit is unprocessed (`CmdIsPending`), that the latest generation's
unprocessed child *is* the one `cmd` names (`LatestIsCmd`), and that generations
not yet begun have left no trace (`FutureIsBlank`). `HushedOnlyIfAsked` needs
`MarkIsARequest`: wherever a mark stands on an unprocessed child, an operator had
asked for that child. `NoOrphanEver` adds the clause itself to the invariant; its
only obstacle is an interrupt that is refused, so the assumption is stated. `OfflineStays`
needs the mark to be the one the exit of the named process will find
(`OfflineIsMarked`); a Start that failed has a generation and no process, after which
a Stop marks nobody, so the property speaks of servers whose `cmd` is of the latest
generation.

**Pump.** The next line handed on comes from the scanner, the next the scanner
gets from the pipe: `NothingMissing` says that as long as a pump is scanning, the
three continue one another up to the last line written. `DrainedBeforeExit` is
the barrier of `pumps.Wait`.

**Tunnel.** `SessionIsNewest` rests on connections being dialled one after the
other (`DialledInOrder`). That an answer is the outcome of the call it settles
rests on where frames in flight come from (`FramesInv`) and on `PendingInv`: what a
session waits for was sent on it and is waited for. `WaitedInv` is the converse, on
which `WaitingIsAlwaysPending` rests. `CallMoves` sorts every step into the five
things that can happen to a call, which are the five actions of `RemoteCall`.

On these, three further invariants. For the order of execution, `OInv`: commands are
numbered as they are issued and sent on ever newer connections (`SentInOrder`), a
link keeps their order (`DownInOrder`), and what is in flight on the one connection
the agent reads, or is dialling, comes after everything executed (`StillAhead`).
For crashes, `CrashInv` bounds counted, owed and flying frames together; handling a
frame shifts the others of its connection, so the step is an injection of what
flies afterwards into what flew without the first frame. For the agreement,
`AInv`: answers travel in the order of execution (`UpInOrder`), so routes go on in
the order of their commands (`RoutesInOrder`), and agent and record are both the
last START, STOP or RESTART of a set of commands, of those executed and of those
whose routes have gone on (`AgreeInv`); when nothing is under way the sets are equal.
Exits stay out of this by `Sound`: an ONLINE server has the process of its latest Start,
which no mark names; the exit of that process is a crash, and every other leaves the
server ONLINE.

**Backups.** `CompletedIsTrue` follows from what the call was answered
(`RecordInv`), the answer from what the agent did (`CallInv`), and that an outcome
is never overwritten from the fact that a command waits in the queue at most once
and only before its outcome is there (`QueueInv`). `HeldIsWhole` needs that the hold
of the backup in progress is in force as long as the server runs (`HoldInv`), which also
says that a world held without it was left so before (`stuck`). In
`NewestAreKept` the set retention counts shrinks while the set the property counts
only grows; the proof is monotonicity of cardinality.

**Provisioning.** A claim is leased because the request that made it held the lease
all the while it waited: the invariant says that of every request still
allocating, unless its server was released or allocated anew meanwhile, and that
a request's fields stay as they were when the lease was taken (`LeaseHeld`, `Stepwise`,
`ServerKnown`). `LiveIsTrue` needs that a request at its second post has its first
record in the zone (`Posted`).

**Local runner.** An OFFLINE runner has no usable handle (`OfflineIsEmpty`), which is
what makes it safe that a start overwrites the handle; a process has left no trace
before it is spawned (`Spawned`); and while a kill timer is pending, a usable handle is
that of a process spawned since (`TimerInv`).

**World files.** `WalkInv`: files never vanish and what a walk has passed is in its
pipe, so a walk that ends has every file. `BucketInv`: no archive in the bucket is
replaced, so what a restore reads does not change under it. `ExtractInv`: entries
extracted so far are as archived, but for those written since.

**Live stream.** `StreamsInv` says that streams before the page's are disposed and on
their way out and those after it untouched, so that only `cur` can be open; with
it `OpenIsReal` is inductive. For `ShownInOrder`, `LinesInv` adds that the lines on
their way to a socket are of its server, numbered upwards, and that those on
their way to the page's come after everything shown. A broadcast appends the
newest number, a message moves the head of one sequence to the end of the other.

**Pages.** `PagesInv` puts three facts to the two properties. The changes that have
happened and those on their way are no more than the bound, so versions stay in
their range. `RequestOK`: a load that was read and belongs to the page is no older
than what the page must show, nor than the change it follows; it is kept where a
load becomes read, which is at the present version, and where `promised` rises,
which is when no older answer is on its way. And a first load marks no button, and
on the login page nothing belongs to the page, which keeps `ButtonsAreTrue` when
requests are given up or outlive their page.

**RCON.** A call tells its answer from the reply to its authentication by the request
id alone, so that the answer is its own rests on the two ids of a call being different,
also where the ids start again at 1 and whatever other calls take ids in between. The
invariant counts: the packets still to be written are at most as many as the ids given
away before the one of the authentication comes again.

**Flush.** `SettledIsDurable` says nothing of a flush under way. It becomes inductive
with `Progress`: a flush that nobody waits for has stored, as it was answered last,
every slot it has passed, and has the present row of its own slot in its hands. A
removal shifts slots below the flush, but each removal ends with an answer, and the
request that is answered waits and starts over; that is why `Progress` speaks only of
flushes without waiters, and why edits that send no answer must only grow the tables
(`Silent`, `Grows`; the others are `Answers`). `MemoryIsNewest` and `SentIsNewer` order
the versions in memory, in flight and stored, from which `NothingGoesBack` follows.
`XuidsFollow`: an XUID memory still has was there whenever its row was read.
`AloneUnlessHerd` needs the gate's own invariant (`GateHolds`): the running flush is the
one the mark names, and the others wait for it.

**Windows.** Both windows forget, and both properties speak of all there ever was. The
bridge is `Forgotten`: what a filter dropped is older than the window, and time only
passes. A window that sees the request let through now then sees no more than the
limiter does; a limiter that refused is full to the limit and the hit it named is its
oldest (`RefusedInv`).

**Allowlist.** `WriteInv` and `ReloadInv` put each command in one place of wire, writer
and answers, with its route waiting; `ReloadComes` says that a list on disk which the
game server has not read has its reload before it.

Only model-checked: the liveness properties (`DeadIsNoticed`, `NothingIsStuck`,
`RunsEnd`, `FlushesEnd`, `TransfersEnd`, `StreamSettles`, `CatchesUp`, `ExecutesEnd`
and those of the further configurations), since fairness and `ENABLED` are outside
what the prover handles. Every safety property the passing runs check is proved.

## 6 What the code does otherwise

The runs with expectation `violation` are disagreements between the code and what
the repository says of it; `PROJECT.json` quotes both sides.

| Run | What happens |
|---|---|
| `backup_unkept` | without R2 the archive is deleted before the backup is reported COMPLETED |
| `flush_anonymised` | a player is anonymised and the flush of that request ends; the update left out the column that was emptied, so Postgres, and the next start, still have the XUID |

Further counterexamples, each by the configuration named:

| Configuration | What happens |
|---|---|
| `AgentLifecycle_falsecrash` | Stop, Start, Stop: the second stop overwrites the mark of the first, and the first process, when it finally ends, is reported as a crash |
| `AgentLifecycle_lostkill` | KILL after a graceful stop returns at the OFFLINE test; the process that ignores the interrupt lives on |
| `ProcessPump_lostlines` | `cmd.Wait` closes the pipes before the pumps are done: the last lines can be lost |
| `AgentTunnel_unlisted` | the late close of a superseded socket deletes the session of the live one; the node is OFFLINE until the agent reconnects |
| `AgentTunnel_lostcrash` | a crash that happens while the tunnel is down is never reported |
| `BackupJobs_abandoned` | retention of a sweep prunes the record of a backup under way; its route throws in the catch block, the API process ends, and another record stays RUNNING for good |
| `PrismaFlush_poisoned` | two users with one address (the check is before an await, the insert after it): the second row stops every later flush at its table |
| `PrismaFlush_torn` | the process ends while the JSON file is overwritten in place; the next start finds no file that parses, begins with the seeds and saves them |
| `LocalHost_uncleaned` | the kill timer reads the handle again, which stop has cleared: a process that ignores "stop" lives on |
| `WorldFiles_running` | a restore replaces files while the process it asked to stop is still writing |
| `Rcon_parts` | an answer in several packets of the usual type is cut to its first, by both clients |

The invariants except such behaviours by a named history variable (`cleared`,
`bypassed`, `promised`, `raced`, `herd`, `overlapped`, `refusedAt`, `since`, `disturbed`), so that
they say what holds of everything else.

Also met while reading, without a run of their own: a restart from the JSON file
leaves `createdAt` a string, on which the sort of retention throws; the setup
pipeline leaves a snapshot record PENDING that nothing executes; auto-bootstrap
pushes the seeds a second time with the same ids; the broadcaster reports a join
it has invented from a player count; the answer of a console command is appended
to whichever server is shown when it arrives; erasing a user's data leaves the
player tracker as it was; without R2, a temporary file that cannot be written
leaves the producer goroutine in its pipe.

## 7 Not modelled, and simplified

* **Diagnostics, versions, downloads, notifications, templates, Discord bot,
  protocol bots, configuration**: probes, table lookups, single HTTP requests,
  formatting. They keep no state whose orderings could matter.
* **Agent main**: flag parsing around one call; an agent that ends is an action of
  `BackupJobs` and `WorldFiles`.
* **Web pages**: the marketplace, whose install is simulated in the page, the error
  pages, forms, dialogues and notices, the command line of the console and of the setup
  page. `Pages` leaves out the opt-in automatic login of a development build, that the
  operations room sets the chosen version back to the latest with every tick, and that
  `togglePower` of the setup page sets the flag by which other buttons are disabled. A
  refused token ends all requests of the tab at once, as the navigation it causes does.
* **Users, sessions, two-factor**: library calls on one request. What is modelled is
  how their rows change around awaits and are stored.
* **Bans, notes, ledger merges, read-only and analytics routes**: synchronous
  functions over arrays.
* `AgentTunnel` lets the API process live on after a call that was rejected. That is
  so for callers that catch (stop-all, status, backups, allowlist); after a power
  route the rejection ends the process, which is `RouteRejects` of `LocalHost`. The
  behaviours up to that point are a subset of those of `AgentTunnel`, so its safety
  properties hold of them too.
* `AgentTunnel` starts with a record that is OFFLINE, as `POST /servers` creates it,
  and takes place within one day, so `crashCount24h` only grows.
* Continuations of routes run in the order their promises were resolved.
* Backup records have distinct `createdAt` times.
* The sweep runs in the process that holds records and tunnel, as `packages/e2e`
  starts it. A sweep that reaches the bound on jobs stops there.
* One world per node, as the agent's `-server-path` has it: a backup filed under
  another server of the node cannot be told apart.
* `PrismaFlush` has a table of users, tables of other rows and the audit log for the
  twelve loops of `flushMemoryToPrisma`, which are written alike in a fixed order; the
  versions of the game, written after the audit log, no request changes. Rows are
  identified by their id, so one table never holds an id twice.
* An API process that has ended is not started again in `BackupJobs`: its records are
  in memory, and `PrismaFlush` says what a restart finds of them.
* `Provisioning` has the pool of the API; the onboarding texts are data.
* `Windows` takes the clock to be monotonic.
* Why a Start, a dial, an upload or an upsert fails is told apart only where the
  code does.

## 8 Plan

| # | Modules | Question | State |
|---|---|---|---|
| 1 | `AgentLifecycle`, `Supervisor`, `ProcessPump` | does the manager keep track of its processes? | checked, proved |
| 2 | `AgentTunnel`, `RemoteCall` | do calls, sessions and records stay consistent? | checked, proved |
| 3 | `BackupJobs` | do backup records tell the truth? | checked, proved |
| 4 | `PrismaFlush` | what does a restart see? | checked, proved |
| 5 | `Provisioning` | no port twice, none lost? | checked, proved |
| 6 | `LocalHost` | do exit handlers and the kill timer keep to their process? | checked, proved |
| 7 | `WorldFiles` | whole archives, whole restores? | checked, proved |
| 8 | `LiveStream` | does the console show what it says? | checked, proved |
| 9 | `Windows`, `Players` | do the windows count right, is the list loaded? | checked, proved |
| 10 | `Rcon` | whose answer is it? | checked, proved |
| 11 | `Pages` | do the pages show what is? | checked, proved |
| 12 | – | `crashCount24h` against a clock; hydration of duplicate ids | open |

## 9 How to run

```
tlc -workers 2 -config LiveStream.cfg LiveStream.tla
tlc -workers 2 -config PrismaFlush.cfg MCPrismaFlush.tla
tlapm PanelProofs.tla
```

`PROJECT.json` `runs` names the module and the configuration of each run, `map` the
source lines behind each definition.
