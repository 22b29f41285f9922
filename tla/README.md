# A TLA+ verification of IMP (InfraInventory)

IMP is a NOC/inventory platform: a Fastify + Prisma backend on PostgreSQL
(`backend/`), a network scanner service (`discovery/`), a monitoring worker
(`monitoring-worker/`) and a React front end (`frontend/`). Paths below are relative to
`src/`; `B/` abbreviates `backend/src/modules/`.

## 1. Inventory

Every backend handler is an `async` function on one Node.js event loop: code between two
`await`s is atomic, and at every `await` (each Prisma call, `fetch`, timer) any other
handler may run. In-memory state (locks, circuit breakers, caches, cooldowns) dies with the
process; PostgreSQL survives it. Almost no handler uses a transaction, so an operation that
makes three database calls is three steps.

### 1.1 Automation (`B/automation/`) - the core
* State: `WorkflowRun`, `WorkflowRunStep`, `ApprovalRequest`, `Workflow`+`WorkflowVersion`
  rows, `AutomationPolicy`, `Agent`, `AIActionProposal` (database); `TargetLockManager.locks`
  (`automation.locks.ts:7`) and `CircuitBreakerManager.states` (`automation.circuit-breaker.ts:16`) in memory.
* `AutomationService.executeWorkflow` (`automation.service.ts:206`): read the newest version, compute
  the maximal risk, read a policy, then either create ApprovalRequest + run WAITING_APPROVAL or
  create a QUEUED run and call the worker in the same request.
* `AutomationWorker.executeWorkflowRun` (`automation.worker.ts:26`): re-read the newest version,
  breaker check, target lock, RUNNING, the step loop (ON_SUCCESS/ON_FAILURE, retries,
  continueOnError, total timeout tested only between steps), breaker update, final status, release in `finally`.
* `decideApproval` (`:393`): read, PENDING check, four-eyes check, then an unconditional update.
* `decideAIProposal` (`:562`): EXECUTE runs the action directly. `processAgentHeartbeat` (`:463`) against `revokeAgent` (`:516`).
* Hard: two runs on one target (lock expiry 10 min, workflow timeout up to 7200 s, tested
  only between steps); version changed between risk check and execution; two deciders; a
  crash with runs in flight.
* Correct when: no two live runs hold one target; a run never executes without the lock; the breaker is
  open exactly after `threshold` consecutive failures; a terminal run stays terminal; high-risk
  steps never run without approval; a lock is never leaked.

### 1.2 Backups (`B/backups/backup.service.ts`)
* State: `Backup` rows (RUNNING, COMPLETED, FAILED, RESTORING, RESTORED; isProtected), files on disk, settings.
* `createBackup` (`:193`) row RUNNING -> export -> file -> COMPLETED / FAILED; `deleteBackup` (`:378`)
  read, protected check, unlink, delete row; `toggleProtectBackup` (`:353`); `restoreBackup` (`:430`) snapshot,
  RESTORING, one transaction, RESTORED / FAILED; `runScheduledBackupCheck` (`:727`) + `applyRetentionPolicy` (`:761`).
* Hard: check-then-act on isProtected around awaits; the scheduled name is a function of the day (`:747`) and `Backup.name` is
  unique, so after one FAILED, crashed or RESTORED scheduled backup every retry of that day is refused by the database; a crash
  leaves RUNNING / RESTORING for ever; retention sees only COMPLETED rows; a failed restore turns a good backup into FAILED.

### 1.3 Discovery (`B/discovery/discovery.service.ts`, `discovery/src/scanner/engine.ts`)
* State: `DiscoveryScan`, `DiscoveryHost`, `DiscoveryChange`, `Machine.status`; in the scanner `activeScans`, `cancelledScans` (memory).
* `startScan` (`:88`), `monitorScanBackground` (`:162`, polls, 15 min), `processScanResults` (`:209`), `cancelScan` (`:673`),
  `approveChange`/`ignoreChange` (`:724`,`:746`), `importHost` (`:768`); scanner `startScan`, `runScanWorker`, `cancelScan`.
* Hard: cancel against a completing scan; a poll that fails half-way through processing is repeated from the start (`:202`);
  monitor lost at restart or after 15 min leaves RUNNING, and `:101` then refuses every later scan of that CIDR;
  a machine matched by MAC or secondary IP is marked ONLINE and then OFFLINE by the same scan (`:504`).

### 1.4 Monitoring, metrics and notifications (`monitoring-worker/`, `B/metrics/`, `B/notifications/`)
* State: `Machine.status`, `MetricSample`, `ServiceCheck`, `MetricAnomaly`; worker `isRunning`; notifier `cooldownMap`,
  `recentSendTimestamps`, `cachedConfig`.
* `ingestMetrics` (`metrics.service.ts:12`) per sample: health, status transition, HOST_OFFLINE / HOST_RECOVERED, anomaly
  (5 min dedup `:268`); `notify` (`notification.service.ts:288`): config (10 s cache), severity and type filter, recovery clears the
  cooldown, cooldown test, rate limit, send (await), record cooldown only on success.
* Hard: cooldown and rate limit are tested before the send and recorded after it; a recovery that is filtered returns before it
  clears the cooldown; OFFLINE -> WARNING -> ONLINE never announces a recovery (`metrics.service.ts:95`); cache refilled with a
  stale row by a read in flight during `updateConfig`.

### 1.5 Inventory import/export (`B/inventory-io/`)
* `executeImport` (`inventory-import.service.ts:305`): one database transaction, each row in its own try/catch, then a log row with the counts.
* Hard: in PostgreSQL a failed statement aborts the whole transaction while the loop keeps counting.

### 1.6 Setup (`B/setup/setup.service.ts`)
* `initialize` (`:46`): one transaction: INSTALLATION_STATUS check, admin count, user exists, create admin, settings.
  `getStatus` auto-persists CONFIGURED. Hard: two initialisations at READ COMMITTED.

### 1.7 The rest
IPAM (`B/networks/`: primary-IP flags over several calls, conflict marking), tickets, changes, maintenance,
machines, locations, assets, licences (assign never compares with seats), AI assistant, auth/users, dashboard, search, topology: mostly one-statement CRUD over Prisma.

## 2. The modules

| module | what it is |
| --- | --- |
| `TargetLockManager` | the lock table as an operator library: `acquireLock`, `releaseLock`, expiry |
| `CircuitBreakerManager` | the breakers as an operator library: `getState`, `recordSuccess`, `recordFailure` |
| `AutomationWorker` | `executeWorkflowRun`, any number of calls at once, with both singletons, failing database calls and crashes |
| `TargetLease` | abstract specification: what the locks promise, without a table |
| `AutomationService` | approvals, decisions, edits and policies around one workflow |
| `Backups` | `BackupService`: the rows, the dump files and the inventory, any number of requests at once, failing calls and restarts |
| `Discovery` | the scans of one network: the backend's rows and monitors, the scanner's memory, failing calls, two processes that restart |
| `Notifier` | `notify` with the cached configuration, cool-down, rate limit and awaited send; `updateConfig` |
| `Monitoring` | one host: the worker's cycles, `ingestSamples`, its alerts and anomalies |
| `Accounts` | users with the guards of the last administrator, and the installation |
| `AgentRegistry` | agents (heartbeat against revocation) and the proposals of the assistant |
| `InventoryImport` | `executeImport` over a PostgreSQL transaction |
| `ServiceDesk` | tickets and infrastructure changes |
| `Licences`, `Maintenances` | seats, overlapping maintenances |
| `Ipam` | the primary addresses of the machines, conflicting addresses |
| `Locations` | the hierarchy of the locations and the tree shown of it |
| `MCAutomationWorker`, `MCAutomationService`, `MCBackups`, `MCDiscovery` | the plans, inventories and symmetry of the small instances |
| `Platform`, `MCPlatform` | the ten services from `Notifier` to `Locations`, one at work at a time; their small instance |
| `AutomationWorkerProofs` | type correctness, the leases and the refinement of `TargetLease`, the ends of runs and of locks, the step loop, the breaker |
| `AutomationServiceProofs` | type correctness, versions, four eyes, late decisions, approvals |
| `BackupsProofs` | type correctness, rows and files, snapshots, the retention |
| `DiscoveryProofs` | type correctness, cancellations, whole results, machines called missing |
| `AccountsProofs`, `AgentRegistryProofs`, `ServiceDeskProofs` | type correctness and all that the three modules promise |
| `PlatformProofs` | the same of the seven other services of `Platform`, and type correctness of the ten together |

### 2.1 AutomationWorker
State: the rows `status` and `stepRuns` (database), `locks` and `breakers` (memory), and per
call its place `pc` and its locals. The code between two awaits is one action, with the
database call that precedes it:

| action | code |
| --- | --- |
| `Submit` | `executeWorkflow` has created the QUEUED row and calls the worker |
| `Admit`, `Reject` | the first read, the breaker check and `acquireLock`, which no await separates |
| `Refuse`, `Start` | the write of FAILED, of RUNNING |
| `SkipStep`, `BeginStep`, `Attempt`, `RecordStepSuccess`, `RecordStepFailure` | one iteration of the step loop |
| `Settle`, `TimeOut`, `Commit` | the verdict with the breaker's update, the write of the final status |
| `Throw`, `Catch`, `CatchFails`, `Release` | an exception inside the `try`, the `catch` clause, `finally` |
| `FailOutsideTry` | an exception before the `try`: nothing catches it and the lock stays |
| `Crash`, `Tick` | the process, the clock |

A database call may fail before its effect or after it (its answer is lost). Actions of the
registry answer success or failure or throw; what they do to a machine is data. The clock
never goes back (`Date.now()` may, when the host's clock is set). A workflow without steps is not
modelled: `automation.schema.ts:55` asks for one step. `isLocked` and `reset` are called by nobody,
`concurrencyLimit` is read by nobody. The clause "already locked by the same run" does not
arise: run identifiers are unique. `atOpening` is a history variable: actions write it (`NoteOpening`) and none reads it.

### 2.2 AutomationService
State: the workflow's row, its versions (each abstracted to the highest risk of its steps), the
policies, an approval request and a run per call; per call, decision and edit the place it
has reached and what it read. `ReadWorkflow`, `ReadPolicy`, `CreateApproval`, `CreateWaitingRun`,
`CreateQueuedRun`, `WorkerReads` are the awaits of `executeWorkflow` up to the worker's first read;
`ReadApproval`/`UpdateApproval` those of `decideApproval`; `ReadForEdit`/`SaveEdit` those of
`updateWorkflow`. `findFirst` without an order is a choice among the enabled policies. The unique
constraint on version numbers is a guard on the number, not on what the editor read. `expiresAt` is
written and consulted by nobody, `EXPIRED` and `CANCELLED` are never written. Users are not deleted.
Agents and AI proposals are in `AgentRegistry`: nothing else reads or writes their rows.

### 2.3 Backups
State: the rows of `Backup` by identifier (in the order of `createdAt`), the files by name, the inventory
(`data`), and per request its place and its locals. File system calls are synchronous, so an action is a
database call with the file calls after it:

| action | code |
| --- | --- |
| `BeginCreate`, `Insert`, `InsertFails` | the row RUNNING, outside the `try`; `Backup.name` is unique |
| `ReadTable`, `WriteFile`, `Complete` | the export (one read per table, in any order), the file, COMPLETED |
| `CreationThrows`, `CreationFails` | an exception in the `try`, the `catch` clause with its own update |
| `Protect` | `toggleProtectBackup` |
| `BeginDelete`, `Unlink`, `UnlinkFails`, `Drop`, `DropFails` | `deleteBackup`, and the loop of the retention |
| `BeginRestore`, `Load`, `Mark`, `Transact`, `Restored` | `restoreBackup`; its snapshot is `Insert` to `Complete` again |
| `RestoreThrows`, `RestoreFails` | its `catch` clause |
| `BeginCheck`, `ListScheduled` | `runScheduledBackupCheck`, then `applyRetentionPolicy` |
| `WriteRecord`, `NextDay`, `Crash` | other handlers, the calendar, a restart |

Abstractions: a table is one record, the number of the write it stems from; an upsert writes it whole. A dump
is what the export read; a truncated one holds nothing and is refused by `JSON.parse`. The check of the
header's checksum does not exist in the code and so not here. A failing call has no effect (a
lost answer is not modelled here), except that a failing write may leave a truncated file. Names made from a time stamp are
new; a scheduled name is its day. The storage directory, `retentionDaily` and the schedule are constants:
`updateBackupConfig` is not an action. `PENDING` and `CORRUPTED` are never written. `history` holds history variables, among them
`daily`, for which day a check inserted which row; `today` is the day the check read.

### 2.4 Discovery
State: the rows `status` (DiscoveryScan), `primary` and `state` (Machine), `hosts`, `changes`; in the backend the
requests (`calls`) and one monitor per scan; in the scanner `remote` (activeScans), `cancelled` (cancelledScans),
`working`, `left` and `found`.

| action | code |
| --- | --- |
| `BeginStart`, `Look`, `Insert`, `Post`, `Answer`, `Fail` | `startScan` (`discovery.service.ts:88`), its `catch` |
| `BeginCancel`, `SendCancel`, `WriteCancel` | `cancelScan` (`:673`) and the scanner's (`engine.ts:22`) |
| `Probe`, `WorkersEnd` | `runScanWorker`: one address, the end of the workers |
| `Poll`, `Close`, `GiveUp` | `monitorScanBackground` (`:162`): the poll, CANCELLED, the fifteen minutes |
| `ReadInventory`, `Save`, `ReportNew`, `MarkOnline`, `ReportMoved` | `processScanResults` (`:209`): the loop over the hosts |
| `HostsDone`, `MarkOffline`, `ReportOffline`, `Finish` | the loop over the machines not seen, COMPLETED |
| `ProcessingFails` | the `catch` inside the loop: the next poll starts the comparison afresh |
| `BeginImport`, `CreateMachine`, `ApplyChanges`, `Decide` | `importHost` (`:768`), `approveChange`, `ignoreChange` |
| `ScannerRestart`, `BackendRestart`, the `...Fails` | a process, a call |

Abstractions: a machine's MAC and host name are one identity, the machine itself; a probe finds any one device or
none; of the differences only a new device, a changed address and a missing machine are reported (ports, MAC and
host name are left out). The answer of the poll is read where it is used: a final answer does not change. All
scans are of one network, the case in which they meet. A poll that fails and one that answers RUNNING both do nothing.

### 2.5 The services of `Platform`
In each module an action is one database call, send or probe with the synchronous code after its answer;
`requests`, `clerks`, `asked`, ... hold the place and the locals of the handlers under way. Where a request
may fail between two calls, `Fail` (or the failing disjunct of the action) ends it there.

* `Notifier` (`B/notifications/notification.service.ts:288`): `Notify` to the read of the row or, with a fresh cache, to the send;
  `ReadConfig`, `Fill`, `Sent`; `UpdateConfig`, `Invalidate`. The configuration is abstracted to its version and the
  events it lets through; cool-down and rate do not change. Per host; `sendTestMessage` keeps out of the limits.
* `Monitoring` (`monitoring-worker/`, `B/metrics/metrics.service.ts:12`): `FetchMachines`, `CollectMachineMetrics`, `PostSamples`, `PostEnds`
  are the cycle, which never overlaps itself, while the ingestion it posted to may go on after its time-out;
  `ReadMachine`, `WriteMachine`, `SearchAnomaly`, `RecordAnomaly` are `ingestSamples`. A sample is what the
  ingestion tells apart: ping, a closed registered port, a latency that stands out. `WriteStatus` stands
  for discovery, imports and users.
* `Accounts` (`B/users/users.service.ts:150`, `:260`, `B/setup/setup.service.ts:46`): `createUser`, `updateUser`, `deleteUser` with each
  of their counts as a read of its own; `initialize` as a transaction at READ COMMITTED (its reads see what is
  committed, its writes appear at the commit); `getSetupStatus` and the setting it writes. A user is a role and `isActive`.
* `AgentRegistry` (`automation.service.ts:438`-`:600`): `RegisterAgent`, `ReadAgent`, `RecordHeartbeat`, `UpdateAgent`, `RevokeAgent`;
  `CreateProposal`, `Decide`, `Execute`, `MarkProposal`. A wrong token has no effect and is left out.
* `InventoryImport` (`B/inventory-io/inventory-import.service.ts:305`): the loop over the rows in one transaction, its commit, the log.
  External, as PostgreSQL: after a statement that failed every later one fails and the commit rolls back
  without an error; a statement waits for the transaction that holds its row. An invalid address and an update
  that finds no row are errors of the row alone (`local`).
* `ServiceDesk` (`B/tickets/ticket.service.ts`, `B/changes/infra-change.service.ts`): the operations on tickets and changes, a read and a
  write each. `WAITING` stands for PENDING, WAITING and CANCELLED, `OTHER` for the changes' other statuses, one prefix
  (TCK) for both prefixes of tickets; the SLA and the history are written and read back by no operation.
* `Licences` (`B/licenses/license.service.ts:219`): `assignLicense` reads, adds and logs by what it read; seats are raised or lowered.
* `Maintenances` (`B/maintenance/maintenance.service.ts:55`): `createMaintenance` counts the conflicts, inserts and writes the check list.
* `Ipam` (`B/networks/networks.service.ts`): `createIP`, `updateIP`, `deleteIP`, an interface with its address, `detectConflicts`; RESERVED and
  DHCP go the way of FREE. And `create`, `update` and `delete` of `B/machines/machines.service.ts`, of which only the primary address is kept:
  `CreateMachine`; `UpdateMachine`, `WriteMachine`, `ClearAll`, `FindIP`, `FlagIP` or `InsertIP`; `DeleteMachine` with its addresses (cascade).
  An import or a restore writes the machine and leaves the addresses as they are (`WriteElsewhere`).
* `Locations` (`B/locations/locations.service.ts:134`): `Create`, `ReadLocation`/`WriteLocation` (`update`), `LookForChildren`/`Delete`. A location is its
  parent; deleting one leaves the children it has got meanwhile without a parent (the schema's SetNull). `Shown` is what `getTree` reaches.

## 3. The runs

| run | instance | shows |
| --- | --- | --- |
| `worker_lease` | 2 runs, 1 target, 1 workflow, lease 1, timeout 1, cool-down 1, threshold 1, clock to 3, 1 failing call, 1 crash | locks, breakers and final statuses under every interleaving |
| `worker_loop` | 1 run, five step plans, 2 failing calls, a crash | the step loop against its rows and its verdict |
| `worker_progress` | 2 runs, fairness, 2 failing calls | runs end unless a call fails, targets come free though the `catch` clause fails as well |
| `worker_two_writers` | 2 runs, no failure | violation: two writers at once |
| `service_safety` | 1 call, 2 decisions, 2 edits, 1 policy, 2 users, 3 versions, 1 failing call | approvals and versions |
| `service_stale_risk` | 1 call, 1 edit, 1 policy, no failure | violation: a version of high risk runs unapproved under a policy that asks |
| `service_approved_waits` | 1 call, 1 decision, fairness | violation: an approved run never goes on |
| `backups_safety` | 2 requests at a time, 4 in all, 1 manual name, 2 tables of which 1 is restored, 2 days, `retentionDaily` 1, 1 fault | rows, files and restores |
| `backups_pruned` | 2 requests at a time, 3 in all, 2 days, `retentionDaily` 1, no fault | violation: a protected backup is pruned |
| `discovery` | 2 requests, 2 rows, 2 addresses, a known and a new device, 1 fault, fairness | cancellations, whole results, machines called missing, scans end |
| `hosts_fall` | 1 ingestion, 2 cycles | violation: an outage that is not announced |
| `platform` | 2 clients, 2 things, one service at a time | what the ten services of 2.5 promise |

Why the bounds are enough: leases, cool-downs and timeouts are compared by differences, so one
tick of each and a clock of three ticks give every order of "before", "at" and "after" the limit;
a third run adds no new way to meet a lock (the table names one owner, and the proofs hold for any
number); one failing call and one crash reach every `catch` and `finally`, and two failing calls (`worker_loop`,
`worker_progress`) a failure inside the `catch`. Two deciders and two editors are what a race needs; the theorems
cover more. Two backup requests meet in every pair of places, and four in a row reach the second scheduled
backup, the one that makes the retention prune the first; one manual name is enough to be taken,
freed and taken again. In `discovery` the second request is the second scan, the cancellation, the import or the
decision that meets the first scan; two addresses make a moved, a missing and a new device; the fault is one failing call,
a restart of either process or a repeated comparison.

In `platform` no module reads a column of another (what the others write of it is a step of its environment), so a behaviour shows one of
them: their product would repeat the same states. Two requests at once are what every race of these handlers needs, and each bound on their number admits
those that set the stage: three notices (a send, one that crosses it, one after) with two sends a minute; three cycles
and one other write of the status (down, warning, up); three requests on the users; two revocations and four heartbeats or
decisions; two imports of up to two rows and one other write; five requests on two tickets and one change; seven
requests on up to three seats; three requests on two maintenances, two hours and one machine; three on two addresses,
two machines and one network; five requests on three locations (two that cross, and a hierarchy deep enough for a cycle that is not a self-loop). `Ttl`, `Cooldown` and `Window` are compared by differences, so one tick of a clock of one gives "within" and "after".

`SYMMETRY` is used where the actors are interchangeable and no property is about a behaviour: the action properties of
`platform` speak of single steps.

Fairness (`FairSpec`) is weak fairness of a call's own next step: Node's event loop resumes every call
whose promise is settled, and the database, the retry timer and the registry's actions all settle
theirs. Failures, the crash and the clock are never fair, and `Submit` is not: no request need
come. A run interrupted by a failing call before the `try` is the exception `EveryRunEnds` names.
`Discovery` asks for weak fairness of each handler, monitor and scan under way: the polls are a timer, every probe has a
time-out, and a call is answered or fails. Requests, faults and restarts are not fair, nor is `GiveUp`:
`ScansEnd` names what leaves a scan RUNNING for ever instead (a backend restart, the fifteen minutes, a FAILED that
could not be written, a scanner that has forgotten the scan).

### Findings
* `worker_two_writers`: `automation.locks.ts:3` says the lock prevents concurrent writes; an entry is taken over
  after ten minutes while its run may go on for hours. What does hold is `LeaseExclusion`.
* `service_stale_risk`: the risk is judged on one version and the worker reads the newest one again. The property asks for
  an approval only where the enabled policies ask for one when the worker reads and the policy the call read asked for one too: in the
  trace the policy is in force from beginning to end. What holds is `UnapprovedHighRiskExplained`.
* `service_approved_waits`: nothing resumes a run whose request was approved.
* `backups_pruned`: a test (`v13_backups_and_io.test.ts:73`) says protected backups are never pruned; the retention deletes by
  identifier what it listed awaits before. What holds is `ProtectedKept`: protected before the list, kept until it is unprotected.
* `hosts_fall`: the change log promises real-time alerts for hosts that fall (`changelog.md:32`, `:35`), and the alert says that the host does not
  answer its ICMP and TCP probes (`metrics.service.ts:92`). A host that answers neither its ping nor its registered port is CRITICAL to the worker
  (`engine.ts:126`), which the ingestion files as a WARNING (`metrics.service.ts:58`), and only OFFLINE is announced: of a host with a
  registered port an outage never is. What holds of the recovery is `RecoveryAnnounced`.

Smaller observations the passing properties state: the breaker hears neither timeouts nor
exceptions (`BreakerCountsVerdicts`), a lock outlives its run when the write of RUNNING fails
(`LockNotLeaked`), a stored SUCCESS turns FAILED when the answer of its write is lost
(`TerminalIsFinal`), a decision may be overturned by one that began earlier (`LateDecisionLoses`), a
completed backup may be without its file (`CompletedHasDump` says when) or have another's
(`DumpIsItsOwn`), a day whose scheduled backup failed stays without one (`FailedDayStaysLost`), and a restore
writes back eight of the 38 tables that were dumped (`RestoredTable`), whatever its message says (`backup.service.ts:672`).
Of the other services they state:
* a scan is marked CANCELLED in its row whatever the scanner said, and COMPLETED by its monitor whatever the row says; only a
  cancellation the scanner granted holds (`CancelAcknowledged`);
* a machine found at another address than the one read for it (known by its MAC or a second address) is marked ONLINE and then OFFLINE by
  the same scan (`SeenButOffline` says that this is the only such case);
* a recovery by way of WARNING is not announced (`RecoveryAnnounced`);
* alerts that cross the awaited send pass the cool-down and the rate limit (`AlertsSpaced`, `RateLimited`); an update of the
  configuration may be ignored for the life of the cache (`UpdateHonoured`);
* the last active administrator is lost by two requests that cross, two installations may both succeed (`AccountsGuarded`);
* a late heartbeat takes a revoked agent back; a proposal is executed in any status, and twice (`RegistryHonest`);
* the log of an import claims rows that the database rolled back, but then it counts an error that is not local (`ImportHonest`);
* a comment begun before reopens a resolved ticket; crossing decisions leave a change with the earlier one (`DeskHonest`);
* licences are overallocated and maintenances overlap, unreported when created at once; a flagged address that is moved leaves
  a machine with two primary addresses, and a primary address set to null leaves its flag; a location moved below one of its own
  disappears from the tree with all that lies in it (`CollisionsNoticed`).

What these properties permit, they do not catch: a race named in a property's excuse happens in this code, and the run shows that
it happens in no other way. The notes of the hazards in PROJECT.json say of each what is permitted. No property speaks of the rows a crash leaves QUEUED or
RUNNING, of the reports a repeated comparison doubles, of a second execution of a proposal, or of a COMPLETED change that is decided again: nothing in
the code or its documents says what should happen then.

## 4. What is proved

Every safety property of section 3 that holds, for every number of runs, targets, workflows, calls, users, machines, ..., every lock
life, threshold, cool-down and limit, every number of faults and crashes, from the assumptions on the constants alone
(`LockAssumption`, `BreakerAssumption`, `WorkerAssumption`, `ServiceAssumption`, `BackupAssumption`, `DiscoveryAssumption`,
`PlatformAssumption`). Four theorems have a hypothesis of their own: `AccountsTypeCorrect`, `AccountsGuardedAlways` and
`PlatformTypeCorrect` that there is a user; and, where they are counted, `AccountsGuardedAlways` that the users and `RegistryHonestAlways` that the
decisions are finitely many.
`PlatformAssumption` says that the life of the configuration's cache is positive (it is ten seconds): an update and a
notification of the same instant would otherwise meet in either order and `UpdateHonoured` be false.

Types: `TypeCorrect` in four modules, `AccountsTypeCorrect`, `RegistryTypeCorrect`, `DeskTypeCorrect`, `PlatformTypeCorrect`. In the service it
rests on `SeenKnown`: an editor has read a version that is still there, so the number it gives is new only next to
the newest; without it the versions need not be a sequence.

### 4.1 The worker
* `LeaseHeldAlways`, `LeaseExclusionAlways`. `LeaseExclusion` is not inductive: that `acquireLock` finds every earlier
  writer expired follows from `LeaseHeld`, which says where each writer stands in the table; the two are
  the inductive `LeaseInv`.
* `WorkerImplementsLeases`: initial states map to initial states and every step of the worker is a `Begin`, `End`,
  `Pass` or stutter of `TargetLease` (`StepKinds`, `StepMaps`).
* `TerminalIsFinalAlways`, `LockNotLeakedAlways`, `NoForeignReleaseAlways`: from `StageInv`, what the database holds of a run
  at each place of its call, and `Owned`, to whom each entry of the table belongs.
* `ConditionsRespectedAlways`, `SuccessIsHonestAlways`: from `RowsInv`. The property says nothing of the local flag `runFailed`, by which the loop
  decides; `Known` ties it to the rows (set only after a failed row), says that in the loop all rows are finished, at a step just the
  last is not, and that a verdict of SUCCESS comes with a complete row for every step.
* `BreakerCountsVerdictsAlways`: `CountInv` adds that the verdicts counted are finitely many, whatever the number of runs still to
  come: without it the cardinality means nothing and one more verdict need not be one more.
* `BreakerClosesForAReasonAlways`: `atOpening` remembers, of every breaker that opens, the real runs of the workflow that were at work then. Only their
  success may close it; that no other run gets in is `OpeningInv`: it says that while a breaker is open every real run of
  the workflow at work is one of those. It is kept because `acquireLock` and the look at the breaker are one step (no await between them), because a breaker
  that has cooled down is closed by whoever looks, and because the run that opens it notes all the others. By `Known` a run has no verdict before
  `Settle` gives it one, so the success that closes is new.

### 4.2 The service
* `NoLostEditAlways`; `FourEyesAlways` (from `FourEyesInv`: a request never changes its requester once a decision can have
  read it); `LateDecisionLosesAlways`.
* `ApprovalGatesAlways`, `UnapprovedHighRiskExplainedAlways`: from `GateInv`. At the two places where a call turns to a run without an
  approval its risk was judged (`Judged`): the policy it read asked for none or the version it read was not of high risk; the
  worker reads a version at least as new, and versions are only added (`VersionsOnlyGrow`), so that either this one is newer or the judgement stands.

### 4.3 The backups
* `ProtectedKeptAlways`: `KeepInv` adds to the property that names are unique and that whatever a deletion is about
  to remove is unprotected, gone or was protected too late; the property alone says nothing of what a queue holds.
* `DumpIsItsOwnAlways`: `DumpInv` says that the row of a writer under way bears its name or was deleted
  while it wrote (so, names being unique, the same name has one writer left with a row), and that a writer
  about to write COMPLETED finds its own file or that of one so deleted.
* `CompletedHasDumpAlways`: `StandInv` says it of the rows about to be COMPLETED too, and that a row whose name a deletion is going to
  free is its own victim or came later: a deletion that was only decided has taken nothing yet.
* `SnapshotHeldAlways`: `SnapInv` follows the snapshot from its insertion, protected, through the writing of its file, with
  identifiers distinct, and with no deletion holding it among its victims unless its protection was lifted.
* `RestoredIsTrueAlways`: `CommitInv`, whoever is about to write RESTORED has committed.
* `RetentionKeepsNewestAlways`: `RetentionInv` says of every victim already chosen that enough newer backups were archived; what was archived stays
  archived, so the count only grows while the loop deletes.
* `FailedDayStaysLostAlways`: the property speaks of days, not of names: `history.daily` remembers for which day a check made which row. `DailyInv` ties
  the two, a row made for a day bears the name of that day (`ScheduledNamedNext`, `DailyNamedNext`), so that a second of that day would share the
  failed one's name, which the unique constraint excludes. With a name of its own for every attempt the invariant, and the property, are false.

### 4.4 The discovery
* `CancelAcknowledgedAlways`: `LifeInv` says that a scan the scanner works on is not compared, that one granted a
  cancellation is not compared or completed any more, and that only one request ever posts a scan, so that nothing sets
  a cancelled one RUNNING again.
* `SeenButOfflineAlways`: `SeenInv` says of the machines the monitor is still going to call missing what the property says
  of those it called: no host that was found answered at the address read for them.
* `CompletedIsWholeAlways`: `WholeInv` says for each place of the comparison which hosts are saved and dealt with and which are still to do; it rests
  on machines keeping their address (`Grown`) and on changes keeping scan, host and type (`Kept`), whatever imports and decisions do meanwhile.

### 4.5 The platform
A step moves the active service only (`OneMoves`), so the invariants of the ten are kept side by side: `PlatformInv`, `PlatformKept`.
* `AccountsGuardedAlways`: `GuardInv` says that what a request has read and counted is still so unless another one wrote to the
  users (`disturbed`); `SeenInv`, that an installation leaves the status configured, so that one which passed the status saw none.
* `RegistryHonestAlways`: `LateInv`, a heartbeat under way for a revoked agent is marked as let in before; the decisions
  about to write EXECUTED are at most as many as the runs of their proposal.
* `DeskHonestAlways`: `SawInv`, stamps never go, so a ticket has those of the row an update has read; `NumberInv`, a
  number is below the sequence and belongs to one ticket or one request about to insert it; `DecisionInv`, while the last decision
  was recorded alone it is the only one that waits.
* `AlertsHonestAlways`: the four properties are about the log of the decisions, the code decides by a map, a list and a cache. `AlertsInv` ties them:
  the cool-down kept is the time of a send that ended and no recovery has followed (`Cooling`), every send that ended has one at least as
  late, but for a recovery or an older send's end (`Cooled`); every send of the last minute that ended is in the list (`Counted`), so that one more
  is one more of a set no larger than the list (`LimitedGrows`); a row that was read at some time misses no older update (`UpToDate`),
  whether it is in the cache or on its way there.
* `HostsHonestAlways`: `HostsInv`, a raised outage not excused is still the host's status; the anomalies that were there when an ingestion searched
  are still resolved or too old when it records (`Looked`).
* `ImportHonestAlways`: `FilesInv` counts, at every place of the loop, each row left behind once (`Sound`) and says that a transaction
  that is aborted has met an error other than a row's own.
* `CollisionsNoticedAlways`. Seats: room that was read is there unless the count may be old, and the seats too many are logged or about to be
  (`SeatsInv`). Maintenances: a count that is not old has every live maintenance the new one meets. Locations: `SitesInv` says that what
  is there reaches the root or something that was moved below itself, of the sets closed under "parent" (`Up`), no recursion being
  at hand. Addresses: `IpsInv` says that a machine's flag and column agree unless a request is half-way with it, how far each such request is
  (`Half`, `Marked`), and that two on one machine know of each other.

The attempt on `AddressesHonest` failed at first, in `FlagIP`: the request that flags an address of its machine did not mark the requests it crosses on
that machine, as every other write does, so that the excuse of the property was too narrow. The module was corrected; the code
is as it was.

Only model-checked: the liveness properties `EveryRunEnds`, `TargetComesFree`, `ScansEnd` (liveness and `ENABLED` are out of the
prover's reach), and the five findings, which are counterexamples.

## 5. Not modelled

* The front end (`frontend/`, more than half of the 56,000 lines): pages that fetch, show and post. What they can do to the system is a
  request, and every request of the modelled services may come at any time.
* Operations on a single row with one statement (assets, warranties, purchases, suppliers, networks, VLANs, tags, ports, software, tasks,
  SLAs, runbooks, settings, and the other columns of machines and locations): two of them can only overwrite a field. Their writes appear as the environment of the modules that read the rows
  (`WriteStatus`, `WriteRecord`, `WriteElsewhere`).
* Sequential text and data processing: the parsers of the import, the exports, the AI engine with its SQL validator, the
  aggregations of the metrics, the simulated actions of the registry, the Telegram texts. They keep no state across an await.
* Dashboard, search, topology and the web socket, which only read; routes and schemas beyond the checks the actions' guards
  cite; password hashing and tokens (libraries); the seeds.

The map therefore stands for a small share of the lines, and for nearly all of those where a second request,
a failure or a restart makes a difference.

## 6. The plan

1. Abstract specifications of what other services promise, with the detailed modules shown to implement them by theorem as the worker does
   `TargetLease`: the scans of the discovery (one life per row), the backups (a store of dumps).
2. The safety half of the liveness properties as invariants: a run that has not ended has a step of its own left.
3. The settings of the backups as an action, and the ports among the differences of the discovery.
