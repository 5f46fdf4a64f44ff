# A verification project for the status platform

The repository is a status platform on Cloudflare Workers, written in Rust:
machines send *diagnostics*, a Cron scheduler *probes* services, both move
*Issues* and the *public status* of services and components; operators edit the
catalogue and publish incidents and maintenance; a release tool registers and
activates deployments. All durable state is one D1 (SQLite) database and one R2
bucket; D1 executes a *batch* of statements atomically, and nothing else is
atomic. Every handler is a chain of awaits (`read`, `read`, `compute`, `batch`),
any number of invocations run at once, and any of them may be cut off between two
awaits. That is what these specifications are about.

## 1. Inventory

Paths are relative to `src/crates/status-backend/src` unless they name another
crate or `migrations`.

| Component | State it keeps | Operations | Modelled in |
| --- | --- | --- | --- |
| Monitor scheduler (`scheduling/runtime.rs`, `store.rs`, `monitor.rs`) | `monitors`, `monitor_locations`, `monitor_checkpoints` | scan, claim, waves of probes, fold, store a diagnostic, commit, release | `MonitorRun`, `MonitorLedger`, `MonitorQueue`, `MonitorEvaluation` |
| Diagnostic client (`diagnostic-client/publisher.rs`) | a bounded queue in memory | publish, flush, retry, cancel | `Submission` |
| Diagnostic ingestion (`diagnostics/platform.rs`) | none; sends to the queue | accept, refuse | `Submission` |
| Diagnostic consumer (`diagnostics/platform.rs`, `writes.rs`) | `diagnostic_event_dedup`, `issues`, occurrences | receive, look up, snapshot, batch, acknowledge, retry, dead-letter | `DiagnosticPipeline`, `IssueLedger`, `Incidents` |
| Issue state machine (`status-domain/diagnostic.rs`, `recovery.rs`, `lifecycle.rs`) | pure | fault, late fault, recovery, transitions of others | `IssueLedger` |
| Transactional outbox (`scheduling/runtime.rs`, `store.rs`) | `outbox` | enqueue with a domain batch, lease, deliver, mark, retry, give up | `Outbox`, `OutboxLedger` |
| Notification consumer (`notifications`) | queue and dead letter queue | batch, webhook, acknowledge, retry | `Notifications` |
| Status reevaluation (`scheduling/reevaluate.rs`, `migrations/0007`) | `current_statuses`, `evaluation_generation` | snapshot, plan with overlay, guarded batch, fan-out | `Reevaluation`, `StatusRanks` |
| Dependency risk (`status-domain/dependency.rs`) | pure | walk of the dependency graph | `DependencyRisk` |
| Probe recovery, suppression expiry (`scheduling/probe_lifecycle.rs`) | `issues` | move an Issue under a revision check | steps of `IssueLedger` |
| Maintenance windows and overrides (`admin/mutations/lifecycle.rs`, `enqueue_expired`) | windows, overrides, work | plan, cancel, override, scan, deliver | `MaintenanceWindows` |
| Incidents and retention (`admin/mutations/lifecycle.rs`, `store.rs`) | incidents, updates, links, pins, occurrences | create, update, resolve, record, purge | `Incidents`, `IncidentLedger` |
| Admin command executor (`admin/mutations`) | `idempotency_keys`, catalogue, policies, audit | idempotent commands under optimistic concurrency | `AdminCommands`, `CommandLedger` |
| Admin sessions (`admin_auth`, `gateway/runtime.rs`) | sessions, login budget, password record | login, logout, authenticate a command | `AdminSessions` |
| Machine authentication (`auth.rs`, `auth/cloudflare.rs`) | key cache of an isolate | select a key, download, verify | `MachineKeys` |
| Deployments (`deployments`) | deployments, upload sessions, artifacts, R2 | register, upload, commit, ready, activate, clean up | `DeploymentRegistry`, `DeploymentLedger` |
| Release tool (`status-release`) | a workspace, a snapshot | prepare, register, upload, publish | `Release` |
| Public API (`public`, `cursor.rs`) | none | status of services and components; pages of incidents and windows | `PublicStatus`, `PublicPages` |
| Telemetry exporter (`telemetry/exporter.rs`) | a bounded queue in memory | enqueue with eviction, flush, back off | `TelemetryExport` |
| Probe execution, gateway routing, admin reads, evidence queries, build tool, front end | none of their own | I/O, routing, read-only queries | not modelled (section 6) |

How they interact:

    client -> ingestion -> queue -> consumer -> batch { dedup, issue, status, outbox }
    Cron -> tick: enqueue_expired -> due monitors -> outbox rows
    probe -> diagnostic batch -> commit batch (+ outbox work) -> recovery -> reevaluation
    command -> session -> batch { guards, mutation, status, audit, outbox }
    status change -> outbox: fan-out to dependents, notification -> webhook
    release tool -> registry -> readiness -> publish; command -> activation
    stored statuses, incidents, windows -> public answers

They never call each other across invocations: all they share is the database
(and R2), and what protects them there is a handful of in-batch assertions: the
lease guard, the revision and binding assertions, the ownership test of the
outbox, the generation guard of the planner, the idempotency keys, unique
indexes and triggers.

What is hard, and the properties that make a component correct (each line of
`PROJECT.json` "hazards" names the place):

* *Leases*: overlapping invocations, lost invocations, late batches. Correct if
  one invocation works on a row at a time and each run counts once.
* *Reads before awaits*: locations, revision, Issue, status, generation, links,
  windows. Correct if a batch has the effect it would have had, had it been
  planned in the same instant.
* *At-least-once delivery* and retries: queue messages, outbox rows, commands,
  uploads, submissions. Correct if each takes effect once with the body it came
  with, its sender is told the truth, and none disappears.
* *Order*: faults and recoveries arrive in any order. Correct if an older
  recovery cannot clear a newer fault, and if the client sends in order.
* *Time*: windows begin, proofs and caches expire, whoever looks or not. Correct
  if nothing stays shown or trusted longer than what it rests on.
* *Convergence*: statuses depend on each other across services. Correct if all
  of them finally agree with the inputs, also in graphs with cycles.
* *Limits*: batches, waves, budgets, bounded queues. Correct if they delay and
  never starve, and if what is dropped is dropped for the reason given.

## 2. Modules and how they correspond to the code

### MonitorLedger, MonitorRun, MonitorRun_proofs

`MonitorRun` is one monitor row and the Cron invocations that compete for its
due runs. The row's columns are variables (`enabled`, `locations`, `run` for
`next_run_at`, `due`, `owner`, `leaseLeft`, `window` for the checkpoints); each
invocation has a step counter `pc`, what it read (`seen`, `plan`, `myRun`) and
the time to its deadline. One action is one await: `Scan` (`store.due`), `Claim`
(`claim_monitor`), `ReadLocations`, `Probe`, `Evaluate` (`read_checkpoints`,
`evaluate_batch`), `CheckLease` (`owns_lease`), `LookUpEvent`, `LandDiagnostic`,
`SendCommit`, `LandCommit` (`commit_evaluation`), `Settle`, `Release`. `Fence` is
`lease_guard` as D1 evaluates it inside the batch. `CallFails` and `Cancel` are
faults; a batch that was sent before `Cancel` may still arrive (`LateCommit`,
`LateDiagnostic`) or not (`LateLost`). `UpdateMonitor` is the operator's edit, which
deletes the checkpoints by cascade and leaves the lease alone.

Two abstractions carry the module. `monitors.revision` is only ever compared for
equality with the value an invocation read, so `current` is the set of invocations
for which it still is equal. A checkpoint window is the set of runs it counts, so
that a lost or doubled run is visible.

`MonitorLedger` is the promise: `Configure`, `Record` (the diagnostic of the current
run), `Complete` (fold the run into the windows as they are now). `MonitorRun`
implements it (`ImplementsLedger`), by TLC and by proof.

### MonitorQueue

Which monitors a tick gets to. `line` is the due monitors in the order of
`DUE_MONITORS_SQL`; `Begin` takes the first `Limit` of those nobody holds, `Wave` runs
what `InWave` picks greedily under the global and the per-target limit, `EndTick`
releases the rest (`Only` picks from a line), `CutOff` is the deadline that drops the future with leases in its
hands. A monitor without a next run, without a valid configuration or whose runs
fail keeps its `next_run_at` and so its place at the head. `FewStuck` says how many of
those the limits bear; each of its three conditions is tight (with one more stuck
monitor, `Limit`, `Global` or `PerTarget` at its edge, TLC finds a starved one). Left
out: a failing query in the middle of the claims, and claims so slow that no time is
left for the first wave.

### MonitorEvaluation

From samples to a signal. A location has one row, a *tumbling* window with the verdict of
the run that wrote it; `Run` folds what the executors answered (`Fold`, `Restarts`),
evaluates answering windows together with the fresh windows of silent locations, each
data centre voting once (`Decided`, `Voters`, `Evaluate`), and writes the verdict to the
answering rows only; `Signal` is what
`monitor_signals` later makes of rows written by several runs. `NextRun` is the grid
of the interval. A run is one step here, because `MonitorRun` has its interleavings.

### IssueLedger, DiagnosticPipeline, DiagnosticPipeline_proofs

`IssueLedger` translates the pure functions (`evaluate_diagnostic`, `decide_state`,
`evaluate_diagnostic_recovery`, the transitions of `Issue::apply` used by other
writers) and what `FaultWrites` and `RecoveryWrites` store of them; it is at the same
time the abstract specification: one event is applied to the current Issue in one
step, at most once per identity. `DiagnosticPipeline` is the consumer: `Receive`,
`LookUp`, `TakeSnapshot`, `Commit` (the batch with its assertion `Guard`), `Ack`, `Retry`,
`DeadLetter`, with `CallFails` and `Crash` between any two, and other writers
(`OtherWriter`, `StatusChanges`). `Requeue` is the queue's own limit from
`wrangler.jsonc`. Two history components (`faults`, `credits`) are not stored by the
code; they exist to state the causal properties.

### Submission

The publisher in front of that queue: `Publish` into a bounded queue, `Flush` (one shared
future, `Poll`), `Send`, the server's `Serve` (202 only after the queue took the event),
`Receive`, `Retry` with `BackoffEnds`, `Timeout`, `CancelFlush` when every caller dropped the
future. An aborted request may still land (`StrayLands`).

### OutboxLedger, Outbox, Outbox_proofs; Notifications

`Outbox` is the table and the dispatchers: `Claim` (one `UPDATE ... RETURNING` that also
counts the attempt), `TakeUp`, `Deliver` (ten seconds, so it may be cut off while its
effect is still under way: `stray`), `Mark` (the result, only under ownership), `Abandon`
(deadline, failing write, lost isolate), late results. `OutboxLedger`: an event
settles once, and as delivered only after its effect happened. `Notifications`
continues where an external event was delivered: `PublishLetter`, then the consumer's
batch (`TakeBatch`, `Deliver`, `Failed`, `EndBatch`), its own attempt limit, the dead letter
queue, `Configure` (delivery switched off and on), `Dies` and `Trouble`.

### StatusRanks, DependencyRisk, Reevaluation, Reevaluation_proofs

`StatusRanks` holds the two orders of statuses and the risk a dependency means for
its caller. `DependencyRisk` is the worklist of `compute_dependency_risk`, one loop
iteration per step (`Skip`, `Take`, `Answer`), started on every graph and every
assignment of statuses the constants allow.

`Reevaluation` is the planner and everybody who runs it. `Evaluate` is the pure part:
`Direct` (aggregation), `ServiceRisk`, `SupportRisk`, `OwnDeadline`, `ServiceDeadline`. A
planner reads everything in one batch (`Plan`, or `Mutate` with an overlay for
diagnostics and commands, `DraftAll` being `plan_admin`), and later lands one batch
(`Land`) if its generation is `current`, or gets a `Conflict`. `Write` fans out to
`Dependents` when `FanoutChanged`. `Probe` is the commit of a monitor run as far as the
status is concerned, `TakeWork` a dispatcher taking a reevaluation row, `Expire` the
expiry scan, `Lose` and the `late` step a lost or timed out planner whose batch may still
arrive. `ServiceRisk` uses the closed form (widest path) that the worklist of `DependencyRisk`
computes on every graph (`ImpactHolds`, section 4).

### CommandLedger, AdminCommands, AdminCommands_proofs

`AdminCommands` is the executor: `Submit`, `Replay` (look for a stored answer), `ReadRow`,
`ReadMore` (what belongs to the row, in further queries), `Commit` (guards, writes, audit,
answer in one batch), and after a failed batch `ReplayAgain` and `Observe`, which decides
between conflict and error. `CallLost` loses an answer, `LateBatch` lands a batch nobody
waits for, `Claim` is the scheduler raising the revision of a monitor.
`CommandLedger` says: one step, on the rows as they are, at most once per identity,
with an audit entry that joins on to the last one.

### DeploymentLedger, DeploymentRegistry, Release, Release_proofs

`DeploymentRegistry` has the handlers in the steps between which they wait for R2 or
D1 (register, upload, transfer, commit, the readiness gate), activations
(`Plan`, `ActivateDeployment`), the cleanup with its list read once, and expiring sessions.
`Release` adds the runs of the tool and the workspace under them: `Prepare` keeps bytes
in memory, `Register1` compares the tree with them, `Publish` makes a version of their frozen
copy (`Snapshot`), at times although `wrangler` reports a failure; nothing is
retried within a run, and the next may start while the handler of the last request is
still at work. `DeploymentLedger` is the promise about manifests, history, artifacts
and the pointer.

### IncidentLedger, Incidents, IncidentsAndPages_proofs

A command is planned from separate reads (`ReadCurrent`, `ReadLinks` three times:
issues, components, services) and written as differences in one batch (`Commit`, under
`RevisionHolds` and the triggers). `Record` is the consumer's occurrence with its pins for
open incidents, `ReadCandidates` and `Purge` the retention pass. `IncidentLedger`: every
update is a command applied to the entry right before it. `recorded` and
`rows` in an update are history components: how many occurrences there were, and which of
them were kept. `OpenEvidenceKept` compares them with the pins: the newest rows at the time of
a link and everything since must be pinned, and no pinned row purged, also when
`ReadCandidates` had listed it before the command was written. Telemetry references are pinned
by the same statements and left out; requests are numbered in the order they are made,
and expect the revision that is current then.

### MaintenanceWindows

The status of a target reduced to the windows and overrides it was computed from,
against the clock. Commands (`PlanWindow`, `PlanOverride`, `Commit`) evaluate in their own
batch as of the time they were planned; `TickBegin`, `TickScan`, `TickWrite` are
`enqueue_expired`, `Deliver` and `Delivered` the work it enqueued. `PromptCommands` is an
assumption of the passing run: no time passes between plan and batch of a command
(section 5 says what happens without it).

### MachineKeys, AdminSessions

`MachineKeys` is one isolate: `Arrive` looks for the token's key in the shared cache
(`Believed`, `Selected`), a miss downloads on its own (`Answer`, `Downloaded`,
`DownloadFails`) and overwrites the cache, while the issuer rotates (`Rotate`). Keys embedded
in the build (`embedded_keys`) bypass the cache and are left out.
`AdminSessions` has calls that read secret and clock at their `Begin` and the database
later (`Budget`, `Issue`, `Session`, `Command`, `Logout`), while the record is rotated.

### TelemetryExport, PublicStatus, PublicPages

`TelemetryExport`: `Enqueue` evicts lower priorities one by one (`Evictions`; it may evict
and still refuse the newcomer), `BeginFlush` takes a batch, `FlushFails` puts it back
(`Requeued`). `PublicStatus`: what `public/status.rs` makes of stored rows and their
deadlines (`Fresh`, `Risk`, `EarliestDeadline`, `ServiceStatus`, `ScreenStatus`), and a reader
who keeps the answer until the deadline it names. `PublicPages`: cursors, one query per
page (`ReadPage`), a detail page of two queries (`ReadIncident`, `ReadTimeline`), operators
in between; `MoveWindow` leaves open which ended windows a tick has completed.

### Edges, Settling, EdgesAndWindows_proofs

`Edges` puts nine modules that share no state side by side, each an instance of its own:
`DependencyRisk`, `MonitorEvaluation`, `Submission`, `MachineKeys`, `AdminSessions`,
`TelemetryExport`, `Notifications`, `PublicStatus` and `PublicPages`. A behaviour is one of a
single part, the *subject*. The module declares what the parts are parameterised with and what
is assumed of it; `MCEdges` only supplies values. `EdgesAndWindows_proofs` holds the theorems
about eight of its parts and about `MaintenanceWindows`, which have the lemmas on numbers and
sequences in common; those about `PublicPages` are in `IncidentsAndPages_proofs`. `Settling`
does the same for `Reevaluation`, `DiagnosticPipeline` and `MonitorQueue`, whose parts each have
their own fairness; its values are in `MCSettling`, its theorem in `Reevaluation_proofs`.

## 3. Runs

| Run | Instance | What it asks |
| --- | --- | --- |
| `monitor` | 2 invocations, 1 location, 2 runs, 2 faults, 1 edit, lease 2, deadline 1, fairness | one worker, leases ended by their holder, ledger implemented, a due run settles |
| `monitor_retry` | one fault after the diagnostic | violated: finding 1 |
| `pipeline_story` | 2 faults and a recovery of each, 2 consumers, 1 foreign change | atomic application, causal head, causal resolution |
| `settling` | statuses: a cycle of 2 over a third service, every proof expires once; queue: conflicting reuse of an identity, 2 consumers, 3 deliveries; line: 3 sound monitors on 2 targets behind 2 stuck ones; fairness | stays fresh, fan-out converges; nothing lost, every message settles; every monitor runs |
| `outbox` | an internal and an external event, 2 dispatchers, 2 attempts, 2 faults, fairness | sole dispatcher, ledger implemented, internal work settles |
| `reevaluation_race` | 2 services, a component, 2 planners, 2 changes, 1 probe, 1 lost call | no write from stale inputs; nothing forgotten at rest |
| `reevaluation_chain` | a chain of 3 services, 1 planner, 3 changes at one instant | violated: finding 3 |
| `admin_commands` | 3 requests, 11 rival commands (two under one key), 1 lost call, 1 claim | ledger implemented, answers agree, conflicts are real |
| `release` | 2 runs, 2 deployments, 2 builds of 2 files, 2 activations, 1 edit, 1 failed call | readiness means stored bytes, what serves was released, ledger implemented |
| `incidents` | 1 incident, 2 issues of 2 services, 3 commands, 2 occurrences, a retention pass, fairness | open evidence kept, ledger implemented, retention makes progress |
| `maintenance_windows` | 1 window, 2 overrides, a service and its component, 3 commands, 3 instants, fairness | what is shown at rest is in force, and shown in the end |
| `edges` | nine parts, one *subject* per behaviour, instance in `MCEdges` | one property per part (below) |

`edges` and `settling` put parts side by side that share no state: the first state
chooses the subject, only the subject moves, and every property speaks of its own
part. That is the union of the parts' behaviours and nothing else. The parts of
`edges`:

| Part | Instance | Property |
| --- | --- | --- |
| graph | all graphs of 3 services over 6 edges, two of them parallel, impacts 0 to 2, 3 statuses each | `ImpactIsJustified`: widest walks, auditable paths, a justified answer |
| evaluation | 3 locations, 3 data centres, one location that moves and one that is slow, 4 runs, 1 edit | `SignalIsEarned`: quorum, samples and freshness behind every verdict shown, which is the last one while its proof holds |
| client | 3 events, capacity 2, 2 attempts, 2 mishaps | `DeliversInOrder`: in order, without a gap, nothing let go unsettled |
| trust | 2 callers, 2 keys, 1 rotation, 5 instants | `KeysFollowIssuer`: withdrawn keys end, new ones are found, within stated delays |
| login | 2 browsers, 2 tokens, 1 rotation, budget of 2 per hour, calls of up to an hour | `LoginIsGuarded`: live session of the record in force; guesses bounded |
| exporter | 4 records, 3 places, batches of 2, 2 failed flushes | `ExportIsFaithful`: budget, order, every record accounted for |
| mail | 2 rows, 3 letters, 2 deliveries, 1 switch, 1 trouble | `NoNotificationLost`: delivered, on its way, or dead-lettered after all attempts |
| status | ring of 3 services, a screen, 3 instants | `PublishedStatusHolds`: an answer stays true until the deadline it names |
| pages | 3 rows, pages of 1 or 2, 1 change | `PagesFitTogether`: a walk shows what stood still once; state and timeline agree |

The type invariant of a module is a conjunct of its first invariant where a run checks it
under that name (`CausalHead`, `RestIsConsistent`, `ReadyIsStored`, `OpenEvidenceKept`,
`RestIsCurrent`, `NothingLost` for `MonitorQueue`, all of `edges`), and a property of its own where it is proved as well
(`monitor`, `outbox`, `admin_commands`).

Bounds, and why they are enough for these questions. *Two invocations, consumers,
dispatchers, planners, callers*: every property is about one actor being overtaken by
another; a third could only overtake in the same way, and no protocol looks at how many
there are (`admin_commands` has three, for a replay that meets a rival). *Two runs*: the
second shows what the first left behind (lease, windows, diagnostic). *One or two faults*:
one loses an actor, the second loses the one that takes over. *Lease 2, deadline 1*: the
least values the check in `limits()` permits in clock steps, hence the tightest race; the
proofs cover all others. *One edit or foreign change*: a change invalidates whatever was
read before, and a second can only do the same. *Three services*: enough for a cycle beside
a service that is not on it, for two paths of different width to one service, and for a
dependent that is not a direct one. *Two occurrences, one pinned by a link*: the second is a
rival for the place; of the limits of a retention pass the batch of a policy binds, that of
the candidates does not. *Two files*: one committed and one missing. *Three locations*: with two an older verdict never outlives a newer one (finding 7). *Three listed rows*: one
before, one behind and one at the cursor. *Limits of 1 to 4* (batches, capacity, budgets):
each other one is reached and exceeded. Bounds on time (`MaxTime`, `Horizon`, `LastInstant`, `LastDay`,
`LastLook`, `Closing`) leave room for one period of everything that expires and one
instant beyond. The other bounds are `MaxRuns`, `MaxFaults`, `MaxEdits`, `MaxChanges`,
`MaxProbes`, `MaxTouches`, `MaxOccurrences`, `NRequests`, `MaxMishaps`, `Rotations`, `Records`,
`Tokens`, `Troubles`, `Switches`, `Offers`, `FailedFlushes`, `Patience`; `MaxDeliveries` is a
limit of the queue as well. Deadlock is not checked in any run: with its bounds used up a
model has nothing left to do.

Symmetry is used for interchangeable consumers, planners, requests, callers and admins,
only in runs without liveness properties.

### Fairness

* `MonitorRun`, `Outbox`: Cron fires every minute, so a scan or claim that stays
  possible happens; every await either answers or is dropped by a timer, so an
  invocation that is alive advances; time passes. The clock may not pass a live
  invocation's deadline (the `Tick` guard): the timeout in `scheduled` drops the
  future. Faults are finitely many: with unboundedly many lost invocations nothing
  can be promised.
* `MonitorQueue`: ticks begin and end; a sound monitor that is probed again and again
  completes some time (strong fairness of `Complete`). Being cut off is not bounded.
* `DiagnosticPipeline`: the queue keeps delivering what is queued; a delivery is
  answered. Crashes need no bound, because the queue counts deliveries.
* `Reevaluation` (in `settling`): a planner that can advance does; a due probe and a pending work item
  are taken up *strongly* fairly, because a planner slot of the model stands for a
  fresh invocation of the next Cron minute, so that a slot being busy again and again
  is an artefact of the bound and not something that holds a real request back. The
  clock stops at `MaxTime`; the liveness properties say what is true from then on.
* `Incidents`: a retention pass is read again and again and ends some time (strongly fair,
  as an invocation may be cut off); none for operators, none for the clock.
* `MaintenanceWindows`: ticks begin (weakly fair) and their scans and writes succeed now
  and then (strongly: a generation conflict or a lost invocation may come in between),
  work is delivered; none for commands.
* `Settling` restates the fairness of its three parts with the subject as a conjunct of
  each action, which leaves the other parts' behaviours unconstrained.

## 4. Proofs

`MonitorRun_proofs` proves for any set of invocations and locations, any number of runs,
faults and edits and any `Lease > Deadline`:

* `TypeCorrect`: `Spec => []TypeOK`.
* `Invariant`: `Spec => []Inv`, where
  `Inv == TypeOK /\ DueInRange /\ Holder /\ Snapshot /\ DiagnosticFirst`.
* `OneWorkerHolds`: `Spec => []OneWorker`.
* `LeaseEndsByHolder`: `Spec => OnlyHolderEndsLease`.
* `Refinement`: `Spec => ImplementsLedger`.

Why the strengthening is needed. `OneWorker` alone is not inductive: two invocations
could work at once after a lease ran out under a live one. `Holder` says that a
working invocation is the owner and that the lease has *more* time left than the
invocation has to its deadline; every tick takes one from both, and the clock may
not pass a live invocation whose time is over. So a lease can only run out when its
owner is gone, and `OneWorker` follows because there is one `owner`. For the refinement,
`Snapshot` says that as long as an invocation is in `current`, the locations and windows
it read are what the row still says, so a batch that passes `Fence` is the abstract
`Complete` of this instant; `DiagnosticFirst` says that a commit which calls for a
diagnostic is only sent once the diagnostic is there, and it is stable because nothing
removes a recorded diagnostic. Assumptions: `LeaseAssumption` (checked by
`limits()`), `NobodyAssumption` (the NULL owner is no invocation), `BoundAssumption`.

`Outbox_proofs` proves for any events, dispatchers, batch size, attempt limit and number of
lost invocations and any `Lease > Deadline`:

* `Invariant`: `Spec => []Inv`, with
  `Inv == Types /\ Shape /\ Leased /\ Owned /\ Stored /\ Succeeded /\ Counted`.
* `TypeCorrect`: `Spec => []TypeOK`, `SoleDispatcherHolds`: `Spec => []SoleDispatcher`.
* `Refinement`: `Spec => ImplementsLedger`.

The lease argument is the one above, row by row: `Leased` says that a live dispatcher owns
each row it holds and that the row's lease outlives it, so two of them cannot hold one
row. It needs `Owned` (exactly the rows in processing have an owner, and an owner that is a
dispatcher still holds the row), because a claim may take a processing row whose lease ran
out and must be known to take it from nobody alive. The bound on attempts in `TypeOK` is not
inductive either: `Counted` says that a row that only a lost invocation could still settle
has used up at most `MaxAttempts + faults - 1` attempts, so that the next claim stays
within the bound. For the refinement `Succeeded` gives the effect before `delivered`, and
`Stored` that no effect is of an event never written. Assumptions: `OwnerAssumption` (the NULL
owner and a vanished one are no live dispatcher), `LimitAssumption` (`limits()`).

`AdminCommands_proofs` proves for any commands, rows, policies, requests and any number of
lost calls and scheduler claims:

* `Invariant`: `CommandsSpec => []Inv`, with `Inv == TypeOK /\ AbsentRows /\ Carried /\ Snapshots`.
* `TypeCorrect`, and `Refinement`: `CommandsSpec => ImplementsLedger`.
* `AnswersHold`: `CommandsSpec => []AnswersAgree`; `ConflictsHold`: `CommandsSpec => ConflictsAreReal`.

The plan of a command consists of two reads at different times, and the batch writes the
difference to what was read, so the refinement needs to know that both reads are of the
row the batch finds. `Snapshots` says that as long as the row still has the revision of the
first read, all of it is what was read; the row guard of the batch then turns what was
planned into the abstract `Execute` of this instant. It takes `AbsentRows` (a row that is
created starts from nothing) and `Carried` (a batch that may land late was sent by an
attempt that has moved on). For the answers the invariant is extended by `Told`: an attempt
not begun was told nothing, and a violated unique constraint means that the command is
answered or the row is there (`Blocking`), which is stable because answers are never removed
(`ResultsKept`). Assumptions: `CommandAssumption`, `SeedAssumption`, `BoundAssumption`.

`DiagnosticPipeline_proofs` proves for any events, bodies, messages, consumers, evaluation
policy and attempt limits, and any number of foreign changes:

* `Invariant`: `PipelineSpec => []PipelineInv`, where `PipelineInv` is `PipelineTypeOK`, `LedgerInv`
  and, for each consumer and message, `Holds`, `Seen`, `Settled` and `Kept`; `TypeCorrect`.
* `Refinement`: `PipelineSpec => AppliesAtomically`.
* `CausalHeadHolds`: `PipelineSpec => []CausalHead`; `CausalResolutionHolds`:
  `PipelineSpec => []CausalResolution`; `NothingIsLost`: `PipelineSpec => []NothingLost`.

The proof has two halves. The first is about the ledger alone. `CausalHead` and
`CausalResolution` are not inductive: that a fault is counted once needs that it is not among
those counted, and that a recovery of the causal head names *one* fault needs that
identities are not reused. `Recorded` gives both: every fault and recovery an Issue holds is
what the dedup table has under its identity, which no step changes once it is set
(`Remembers`). One lemma for a late fault, the next fault, a recovery and an intervention each
shows what it keeps (`Sound`), and `Advances` what it does to the list. The second half is about
the consumers. `Seen` says that the Issue a consumer read is the youngest one of now, if no
other was opened and the revision is the one that was read; it is stable because revisions
only grow. So a batch that passes `Guard` evaluates `Current(issues)` (`CommitApplies`), and every
step of the pipeline is a step of the ledger or leaves it alone. `Settled` and `Kept` carry the
reason why a message is acknowledged to the moment it leaves the queue. Assumptions:
`PayloadAssumption`, `MessageAssumption`, `AttemptAssumption`.

`IncidentsAndPages_proofs` proves for any issues, components, services, commands, requests, policies
and limits:

* `Invariant`: `IncidentSpec => []Inv`, with
  `Inv == TypeOK /\ Plans /\ PinsKept /\ LinkRows /\ Evident`.
* `EvidenceHolds`: `IncidentSpec => []OpenEvidenceKept`.
* `Refinement`: `IncidentSpec => ImplementsLedger`.

What an incident is linked to is the latest row of each item up to an update, so the first
lemmas are about one set of rows: a batch says nothing of earlier updates (`LinkedBefore`), and
after it the incident is linked to exactly what was planned, if the plan started from the
links there were (`LinkedAfter`). That it did is `Plans`: a plan whose revision is still the
current one has read, in each table it has come to, what is linked now, because links only
change together with the revision. Then a batch that lands appends one entry of the ledger and
nothing else touches the history. For the evidence, `OpenEvidenceKept` needs `PinsKept` (the
purge looks at the pins again), the fact that the newest rows of a set remain it (`BestLasts`:
rows change neither issue nor time), so that what a link has pinned is what it still needs,
and `LinkRows`: `LinkedBy` chooses a latest row, which exists
for everything linked, and stays the same until the item is unlinked. Assumptions:
`OwnerAssumption`, `ItemAssumption`, `CommandAssumption`, `LimitAssumption`.

`Release_proofs` proves for any deployments, builds, callers, attempts, activations and
number of files, failed calls and edits:

* `Invariant`: `ReleaseSpec => []Inv`, with
  `Inv == TypeOK /\ Consistent /\ Declared /\ Pointed /\ Handled /\ (\A c : Runs(c)) /\ Serving`.
* `StoredHolds`: `ReleaseSpec => []ReadyIsStored`; `RunningHolds`: `ReleaseSpec => []RunningIsReleased`.
* `Refinement`: `ReleaseSpec => ImplementsLedger`.

A handler finds something out in one step and acts on it in a later one, when its caller may
be gone and another handler ahead of it. `Known` says what it may rely on at each point
(the manifest is stored, the declaration is required, the bytes are there, nothing is
missing), and `Grows` why it stays true: rows are only added, and no state goes back.
Readiness is the one exception, and is guarded by the sequence number (`seen`). `Pointed` does
the same for an activation: a plan of the pointer's revision has read the pointer as it is.
The cleanup could undo all of this, and does not: a session is only opened for what the
manifest declares (`Declared`), and a deployment is retired only after it was ready, when
everything declared was committed; so, within the model, the cleanup finds nothing to delete
(`NothingReclaimable`). From the answer "ready" `Runs` carries the fact to the publication,
and `Serving` keeps it for what serves. Assumptions: `FileAssumption`, `NoneAssumption`,
`BoundAssumption`, `EditAssumption`.

`Reevaluation_proofs` proves for any catalogue, dependency graph (cycles included), supporting
services, planners, impacts, windows, periods and bounds:

* `InvariantHolds`: `Spec => []Inv`, with `Inv == Types /\ Steps /\ DraftsHold /\ RowsHold`, and
  `TypeCorrect`: `Spec => []TypeOK`.
* `NothingForgotten`: `Spec => []RestIsConsistent`.
* `NothingStaleWritten`: `Spec => WritesWhatHolds`.
* `ShallowGraphsConverge`: if every service depends directly on all that it depends on,
  `Spec => []ConvergesThroughOutbox`; finding 3 is that the hypothesis is needed.
* `NothingIsForgotten`: `SettlingSpec => []NothingLost`, for any monitors, limits and intervals too.
  One half is `NothingIsLost` of `DiagnosticPipeline_proofs`, told of the queue as a part of
  `Settling` (`SameQueue`). The other is about the line: what picking some from a line keeps
  (`OnlyIs`), that a line has room for those who come due (`InLineIs`), and that a wave and the
  deadline take out of the line only what they took from those claimed (`InWaveIs`, `LeaveKeeps`).

Neither property says anything of the moment between a planner's read and its write, or of
a row somebody is still asked to evaluate; the invariant does. `DraftsHold` says that a
draft whose planner is still `current` is right for the inputs and rows its batch will find,
or has expired. "Right" has two halves: `Own`, of the target's own inputs, and `Reads`, of the
other rows. Both include that the row's deadline is no later than any it was computed from,
and that is why they survive the passing of time, which changes what proofs, windows and
other rows amount to, and an expiry scan, which removes a window that is over
(`OwnLasts`, `ReadsLasts`). A change of an input or a row ends `current` instead. `RowsHold`
says that a stored row is right for its own inputs, and for the rows whose changes ask for
it (`Follows`), unless it has expired or somebody was `Asked` to evaluate it: a request in the
outbox, or a dispatcher that took one and can still give it back. A batch that passes a row
by without asking for it has changed nothing that `Follows` looks at (`LandKeepsRow`), and a
request ends only with a batch that writes its target (`AskedLasts`). `Covered` carries what
a command plans with its own target: the components that a window of their owner covers.

The lemmas below it are about the operators: least and greatest elements of bounded sets of
numbers, which `Min` and `Max` choose; the strongest of a set of risks, which is one of the
kind and hides none; an evaluation, whose deadline is the least of all it read
(`EvaluateHolds`); and `WidthRange`, the range of the recursive function `Width`. That such a
function exists is shown by induction over a set of numbers (`NatSetInduction`), which needs no
operator parameter; the same induction gives `OnlyIs`. Assumptions: `CatalogAssumption`,
`ReevaluationBoundAssumption`, and of `Settling` `QueueAssumption` (those of `DiagnosticPipeline`)
and `LineAssumption`.

`EdgesAndWindows_proofs` proves for any windows, overrides, targets with their components,
commands, requests, page limits and bounds:

* `InvariantHolds`: `WindowSpec => []IInv`, with `IInv == Typed /\ TickHolds /\ Announced /\ Begun
  /\ CommandsHold /\ ShownHolds /\ WorkHolds`, and `TypeCorrect`: `WindowSpec => []TypeOK`.
* `NoRowForgotten`: `WindowSpec => []RowsAreShown`, with or without `PromptCommands`.
* `NothingLeftBehind`: if `PromptCommands`, `WindowSpec => []RestIsCurrent`.

A target may show something that is not in force for two reasons that are repaired: an item
is pending for it, or the next tick finds one (`Owed`). `Current` is the disjunction, and the
invariant claims it of what is shown and of what a delivery of the present generation is
about to write (`WorkHolds`). For the target of an item that ends nothing but this claim is left,
which is why the item itself must not count there. `TickHolds` says that a scan of
the present generation found what was unannounced at its own time; `Announced` that what was
announced is behind the rows, so that a later edit is unannounced again. A command's batch
changes a row and evaluates targets: `CommandHolds` says that, if its guard still holds, these
are all the targets that the row concerned before or concerns afterwards, components included,
and that its draft says what the rows after the batch will say (`NewIdentities` keeps two
commands from creating one override). Without `PromptCommands` the draft may be older than the
begin or the end of an interval, and finding 6 is that nothing repairs it; `Aged`, the weaker
claim that the draft says what the rows say *as of some time past*, survives, and with it
`NoRowForgotten`: no order of commands, ticks and deliveries loses a row, only the time can be old.
Assumptions: `TargetAssumption`, `CommandAssumption`, `LimitAssumption`.

The same module proves of `EdgesSpec`, whatever the subject, for any values of the constants
that the assumptions allow:

* `KeysHold`: `EdgesSpec => []KeysFollowIssuer`. `Fetched` in its invariant `TrustInv` is what
  is known of a set of keys that was published at some instant: which of them may have been
  withdrawn since, and which others published. `Rotate` does not disturb it, so it holds of every
  answer under way from the begin of its call, and of the cache from at most one download
  before its stamp, whichever download wrote it last; that is where the delays come from.
* `LoginHolds`: `EdgesSpec => []LoginIsGuarded`. A command rests on a session found earlier, so
  `LoginInv` says of every call what was true of its session and its record when it began, while
  what was issued is never changed. `Counted` divides the guesses: the last ones are counted by the
  budget in force, those before are older than its start, and all but `BudgetLimit` of those by a
  window more; older but for `Patience`, since the clock of a call is that much late at most.
* `NotificationsHold`: `EdgesSpec => []NoNotificationLost`. `MailInv` says that the batch is exactly
  the letters with a place in it, each once, and that a row no longer pending has a letter, for good.
* `ExportHolds`: `EdgesSpec => []ExportIsFaithful`. `ExporterInv` has the two queues rising, so that no
  record is in two places and the bytes of both are those of a set; the lemmas below it say
  what one eviction takes away (the first of the lowest records), and by induction what any
  number of them do, so that one ends with room or with nothing lower left.
* `DeliveryHolds`: `EdgesSpec => []DeliversInOrder`. `ClientInv` says that the queue is a stretch of
  what was offered without what was settled, that everything before the head which the server
  may take has arrived, and that an answer under way is about the present head. An attempt
  that is given up leaves `stray` behind, which can only repeat what has arrived or is still the head.
* `SignalsHold`: `EdgesSpec => []SignalIsEarned`. `EvalInv` says that a row counts samples that were
  taken, in its own data centre and between its two ends, up to the verdict written with it, and
  that every sample and verdict is older than the run that is due; so a fold counts its answer once
  more, and the newest verdict decides. A vote of every data centre is one, hence the quorum is
  an injection from the locations that voted into the data centres that were sampled.
* `ImpactHolds`: `EdgesSpec => []ImpactIsJustified`, for graphs of any shape. `WidestWalks` is the least
  function that is closed under the edges (`WidestHolds`: as many steps as there are services
  settle it, since a step that does not settle reaches one service more). `GraphInv` says that
  every cap taken or waiting is that of a journey, hence no more than any closed function
  (`JourneyReaches`), and that what an edge makes of a cap that was taken is taken too, or still
  waits (`NoneLost`). With the queue empty the caps taken are closed themselves, so they are
  the widest; and as a contributor's path is a journey of its cap and of the least of its hops'
  greatest impacts, the two are equal. Before the queue is empty they need not be: the path
  may go over an edge whose stronger parallel one has not been taken.
* `StatusHolds`: `EdgesSpec => []PublishedStatusHolds`. `StatusInv` says that a page is the answer of some
  instant past, of the rows there are now. So two answers of one function are compared, `AnswerAt`,
  and what lies between them is only time: a proof that lapses turns into `unknown`, and a
  deadline says when. The lemmas below say that whatever an answer rests on has a deadline no
  earlier than the one it names (`Reachable` is closed under the links, as in `ImpactHolds`, so every
  walk that carries a risk stays inside), that up to it nothing there has changed, and past it
  nothing but `unknown` or a demonstrated failure can be shown.
* `PagesHold`: `EdgesSpec => []PagesFitTogether`, in `IncidentsAndPages_proofs`. A page is read in the
  order of the query, so the lemmas there say of a finite set and a strict order that every element has its place
  (`PlaceIs`, by counting), and of the first of them that a page shows each once and leaves only
  what follows the last one shown (`PageIs`). `PagesInv` says of every row that stood still, and
  of every incident, that it is listed once if the walk is past it (`Behind`) and not at all
  otherwise. A later page asks the same of the same time (`FromIs`), which is what the cursor
  carries; a walk that is past a row stays past it, as long as the row keeps its place.

Assumptions: `GraphAssumption` (edges between finitely many services, the source among them),
`StatusAssumption` (the same of the catalogue; a deadline is an instant or missing), `PageAssumption`
(finitely many rows, a page has room for one), `TrustAssumption`,
`LoginAssumption`, `MailAssumption`, `ExporterAssumption`, `ClientAssumption` (what the constructors and
`limits` check), and `EvaluationAssumption`, of
which the part that is not about types says that the answers of a run are taken after the
run before it. A location is probed only when the run before has been committed, so this is
about the executors' clocks: `process_monitor` takes any sample younger than the staleness limit. The lemmas on sequences and the
induction over numbers are by `LeastOf`, a least element of any set of numbers, because the
library's induction theorems take an operator.

Only model-checked: all liveness, because it needs ENABLED. Every invariant and every action
property that a run checks is stated by a theorem.

## 5. Where the code and what is said of it differ

Findings 1 and 3 are runs of their own. The others were met while modelling; each names the
property in the module that states what is said, and the instance on which TLC refutes it,
which any reader can check by naming it in a configuration.

1. **A retried run may never complete** (`scheduling/runtime.rs:317`, run `monitor_retry`).
   The health event's id is derived from the run, its digest covers the new observation's
   time. If the diagnostic batch became durable and the commit did not, every retry is
   refused as `idempotency_conflict`, the lease is released, and the same happens again for
   as long as the target keeps failing.
2. **A late fault does not confirm** (`status-domain/diagnostic.rs:420`;
   `DiagnosticPipeline!EnoughOccurrencesConfirm`, story instance with `MinOccurrences = 2`). An
   out-of-order fault is counted but the state is not decided again, so an Issue may stay
   `observed` with as many occurrences as the policy requires (`diagnostic.rs:257`).
3. **Risk left behind in a chain** (`reevaluate.rs:324`, run `reevaluation_chain`). A row is
   computed from every service its target can reach, but a change asks only for those
   directly above (`FANOUT_TARGETS_SQL`), and only if the row in between changes as well
   (`reevaluate.rs:228`). `db` fails and `api` follows, which asks for `web`; `db` recovers,
   which asks for `api`; `web` is evaluated, and finds `db` healthy; `db` fails again; `api` is
   evaluated, is degraded as before, and asks for nobody. Nothing is pending, and `web` is
   shown as operational until its own next evaluation. ("[I]ndependent invocations
   converge through the outbox", `scheduling/README.md:17`.) What does hold is
   `RestIsConsistent`, and in graphs without such chains the promise itself (section 4).
4. **Pinned freshness in a cycle** (`reevaluate.rs:501`; `Reevaluation!CyclesStayFresh` with
   `Dependencies <- Cycle`). The stored deadline is the minimum over the *stored* deadlines
   of all reachable services, lapsed ones included. In a dependency cycle the oldest lapsed
   deadline is copied round for ever, although every proof is renewed; the public status is
   then shown as unknown.
5. **A replay may be told of a conflict with itself** (`admin/mutations/mod.rs:213`;
   `AdminCommands!ReplaysAreSafe`, two attempts with one command). The stored answer is looked
   for before planning and after a failed batch; if the first attempt commits in between,
   planning finds the raised revision and answers 409 ("The same command/body can be
   replayed safely", `docs/operations.md:161`).
6. **A window may be planned away** (`admin/mutations/lifecycle.rs:711`;
   `MaintenanceWindows!MaintenanceShown` with `PromptCommands = FALSE`). A command evaluates as
   of the time it was planned, from snapshots read later. Planned just before a window
   begins, and evaluated after a tick has activated the window and its work was delivered,
   it writes the status without the maintenance, and nothing evaluates the target again. (A
   delivery, too, reads the clock before its snapshot; in the model both are of one instant,
   so that a window created with a start in between is not examined.)
7. **An old verdict shown again** (`reevaluate.rs:400`; `MonitorEvaluation!NewestVerdictShown` on the
   instance of `edges`). The freshness of a verdict is that of the oldest vote it counts. A
   location in the data centre of another does not vote; when the other moves it does, with
   its older sample, so the next verdict may end before the one it replaces. A location
   silent in that run still has the verdict before, and that is read once the newer one
   has ended: "failing" turns into "healthy" without a run. ("[U]se the newest batch verdict,
   never an old peer verdict", `reevaluate.rs:370`.) Three locations are needed. What does hold
   is `SignalIsEarned`: the older verdict was earned too, and is within its own limit.

Smaller things a reader of the code may want to know:

* `docs/implementation-decisions.md:10` says that without an effective transition there is no
  fan-out; the code (and its comment at `reevaluate.rs:318`) also fans out when the direct
  status or the deadline changed. `Reevaluation!FanoutChanged` follows the code, and
  `settling` shows that this converges in a cycle too.
* Observation windows are tumbling (`docs/database.md:228`), although `evaluation.rs:61` says
  rolling. Hysteresis looks at the first answering location's previous verdict only; a
  silent location keeps the shorter freshness of its own last run; any `updateMonitor` wipes
  the checkpoints.
* A token that names no key is refused while two keys are published, and up to the cache's
  lifetime after a rotation.
* An upload or registration replayed for a retired deployment answers 409, although
  `docs/observability-standard.md:161` says that resubmitting the same content succeeds. A late
  `wrangler deploy` may serve a deployment retired meanwhile, so running version and
  active pointer may differ. Artifact commit and readiness are two batches, although
  `docs/database.md:208` calls them one transaction; the later commits and the last
  registration close the gap. The state `failed` is never written; the cleanup therefore finds
  nothing to reclaim, and uploads of a deployment that never gets ready stay.
* A patch of a resolved incident without `state` passes the domain and is stopped by the trigger.
* A letter queued when delivery is switched off is retried and dead-lettered untried.
* A moved maintenance window may be missed or shown twice by a reader in the middle of the
  pages; the limit of a page is not bound into its cursor.
* A syntactically valid Cron expression that never fires is accepted; its monitor is one of
  `MonitorQueue`'s `Unready`.
* `recovery_state` reads `recovery_min_occurrences` from the top level of the rules only, the
  diagnostic consumer also from `contract`; `IssueLedger` has one `RecoveryMin`.

## 6. Not modelled, and why

* Wording, formatting, canonical fingerprints and digests: identities are compared,
  never taken apart; that equal bodies have equal digests is assumed.
* Probe I/O, DNS, HTTP and TCP executors: the scheduler sees an observation or none.
* Gateway routing, admin reads, evidence queries, the front end: no state of their own.
* The build tool and provenance manifests: other programs and file layout; a build is a value
  in `Release`. That `install_directory` is not atomic against a crash is not shown.
* Field by field validation of commands and events; the severity of Issues.
* Inside `Reevaluation`: fingerprints of components, transition and audit rows, disabled
  services, several monitors per target, policies that change under an Issue.
* Whether waves leave time for the outbox in the same tick (`runtime.rs:121`): a matter of
  durations, of which the models have none.
* That a crash between the commit of a run and `probe_lifecycle::apply` (`runtime.rs:296`)
  loses that run's recovery evidence, and that nothing lifts a suppression whose work item died
  (`store.rs:534`): the code promises neither, so there is nothing to check.

## 7. What a next step would add

* The read-then-write protocol of `probe_lifecycle` composed with `DiagnosticPipeline`, with the two
  readings of `recovery_min_occurrences` told apart.
