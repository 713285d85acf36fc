# TLA+ models of autotechnology

`autotechnology` is a modular monolith that researches topics, writes and
checks content, gets it approved and delivers it to publishing channels. Its
durable core is a small set of SQL stores under `infra/foundation` (task queue,
failure facts, outbox), the worker process of `apps/worker` that runs jobs from
the queue, and the graph runner of `orchestration`. Around them stand about
twenty domain modules under `modules/`, most of which keep their state in
process behind a lock, or in SQLite behind one connection.

This directory models those parts, checks the models with TLC on small
instances and proves the main safety properties with TLAPS for every value of
the constants.

    durable core                                     model-checked by            proved in
      TaskQueue, JobContract                         TaskQueueMC                 WorkerProofs
      WorkerRuntime (extends TaskQueue)              WorkerRuntimeMC             WorkerProofs
      Outbox, OutboxContract                         Outbox                      OutboxProofs
      GraphRun                                       GraphRun                    GraphRunProofs
    services                                         ServicesMC
      Distribution (extends ApprovalDesk)                                        DeliveryProofs
      FakeDelivery                                                               DeliveryProofs
      Scheduler, WorkflowRuns, Operations                                        ServiceProofs
      Deletion, Recovery, Evaluations                                            ServiceProofs
      PolicyGate, TokenLeases, Accounts, Handover                                DeliveryProofs
      the clicks of Operations, ModelBudget                                      KeptProofs
      Metrics, Feedback                                                          KeptProofs
    content                                          ContentMC
      Canonical (extends Knowledge, Provenance)                                  ContentProofs
      Geo                                                                        GeoVideoProofs
      RenderJobs, MediaChain, MediaChecks                                        GeoVideoProofs
      Topics, QualityGate, Site, Agents, Variants

`PROJECT.json` lists the components, runs, theorems, findings, the source lines
behind every definition, a seeded fault for every checked property, and the
hazards of the code with the properties that watch them. To check a run or a
proof:

    tlc -workers 2 -config TaskQueueRow.cfg TaskQueueMC
    tlapm WorkerProofs.tla

## 1. Inventory

Each entry says what state the component keeps, what it does, whom it meets,
what is hard about it and what it must guarantee. The module that models it is
named at the end.

### Durable core

**Task queue** (`infra/foundation/task_queue.py`, `task_claim.py`,
`task_failure.py`, `task_failure_facade.py`, `task_replay.py`). State: the
tables `task_jobs`, `task_job_leases`, `task_failures` and the `unknown_result`
rows of `human_tasks`. Operations: enqueue, claim, start, heartbeat, complete,
record a failure, manual retry, requeue a dead letter, replay. Workers, the
internal HTTP endpoints and recovery drills all write the same rows. Hard: leases
that expire under a running handler, late and repeated reports, attempt limits
on every path back to a claimable status, a manual retry that decides before its
transaction. Correct when the two tables agree, only the newest token counts, no
job runs more often than `max_attempts`, an ended job stays ended, and a result
that is unknown is not executed again without a review. *TaskQueue.*

**Worker process** (`apps/worker/runtime.py`). State: the batch it has claimed,
the handler in progress with its deadline and heartbeat, the shutdown token.
Hard: crash with leases held, a batch that waits behind a slow handler,
shutdown and timeout in a handler whose effect may have happened, queue errors
that escape the loop. Correct when a punctual handler is alone with its job,
effects are bounded by attempts, a success has performed its effect, every job
ends and a stopping process exits. *WorkerRuntime.*

**Transactional outbox** (`infra/foundation/outbox.py`). State:
`outbox_events`. Operations: commit a state change with its event, put due
retries back, claim, publish, mark. Hard: publishing lies between two
transactions; crash, unknown results and lost leases there; a duplicate check
before the transaction. Correct when state and event are committed together,
`published` means sent, an attempt is sent once, and every event ends. *Outbox.*

**Graph runner** (`orchestration/runtime.py`, `checkpoint.py`). State: runs,
attempts, checkpoints, answers of resume commands, advisory run leases.
Operations: run, resume, pause, cancel. Only the creation of a run is under the
runner's lock, so threads interleave between every read and write. Correct when
a success went through the whole graph, only what was under way when a run ended
may write over its end, the kill switch stops a run within a node, and no attempt is left open. *GraphRun.*

**Recovery drill** (`modules/audit/recovery.py`,
`infrastructure/local_recovery.py`). State: backups, restore runs, the pause of
each queue, the restored store. Operations: back up, begin a restore (which
pauses queues), restore, reconcile, release. Hard: a second restore takes over
the pauses of the first. Correct when a queue reopens only after the restore
that owns its pause has been reconciled. *Recovery*; the effect of a pause on
claims is in *TaskQueue*.

**Scheduler** (`apps/scheduler/service.py`). State: jobs with a version, the
next occurrence, lease and lock of an occurrence, completed occurrences.
Only claim_due takes the lock; complete writes back the job it read. Correct
when no two workers hold one occurrence. *Scheduler.*

**Workflow runs and dispatcher** (`modules/workflow`). State: runs with a
transition table, human tasks with a due time, events of both, and an in-memory
outbox that turns events into jobs. The expiry scan pauses a run in whatever
status it is; a failed event is left leased. Correct when the events tell where
every run is and an event is taken once. *WorkflowRuns.*

### Decisions and delivery

**Approval desk** (`modules/approval/service.py`). Requests with a quorum,
decisions, overrides and expiry; no self-approval, no duplicate approver.
**Kill switches** (`modules/distribution/killswitch.py`): versioned switches with
guard answers cached per key. **Intents and execution**
(`modules/distribution/service.py`, `vertical.py`): execute() is shown an
approval, asks the kill switches before it takes the lock, and records an
attempt under it. Correct when nothing is executed that its reviewers do not
stand behind, nor past a switch. *ApprovalDesk, Distribution.*

**Delivery** (`fake_workflow.py`, `fake.py`, `idempotency.py`, `retry.py`,
`reconcile.py`, `deadletter.py`). publish() calls one locked service after the
other, operators resolve unknown results in two steps. Correct when an attempt
has one verdict that is acted on. *FakeDelivery.*

**Accounts and targets** (`distribution/account/service.py`, targets of
`distribution/service.py`): evidence attached to connections, health checks
without a lock, versions of targets. **OAuth** (`distribution/oauth`): sessions
with one-time state, secrets, token leases. **Handover** (`manual.py`,
`package_storage.py`, `webhook.py`, `matrix.py`): packages with links, incoming
events, field mappings. *Accounts, TokenLeases, Handover.*

**Operations** (`modules/operations`, `scripts/open-xhs-session.py`): the rules
and pilot runs of the operator, kept in memory and in a file, and the browser
session that works through a command file. *Operations.*

**Policy gate** (`modules/policy`): two services that judge a subject by
snapshots and facts. **Model budget and gateway** (`modules/model_gateway`):
reservations and settlements against layered policies around one provider call.
**Prompt evaluations** (`packages/prompt_registry`): versions, runs over golden
sets, a gate. *PolicyGate, ModelBudget, Evaluations.*

**Deletion** (`modules/audit/deletion.py`, plans in `geo_region/policy.py`):
stages that are asked, absent or reviewed, and restarts between the calls.
*Deletion.*

**Analytics and feedback** (`modules/analytics`, `modules/feedback`): versions of
definitions and observations, snapshots of them, and what follows from those.
*Metrics, Feedback.*

### Content pipeline

Versioned records with validation and a status each, connected by identifiers;
the interesting properties are between them.

**Provenance and rights** (`modules/provenance`), **knowledge**
(`modules/knowledge`) and **canonical content** (`modules/canonical_content`):
sources with rights, claims on evidence, versions of content that bind them, and
the refresh queue. A complaint freezes rights and blocks what derives from them
in two transactions. *Provenance, Knowledge, Canonical.*

**Topics** (`modules/topic`): signals, opportunities, plans, briefs, taxonomy.
**Regions and GEO** (`modules/geo_region`, `geo_content`): one version of a region
in force, runs of queries over fixtures, the assessment of pages. **Variants**
(`modules/production`): drafts for a market, the rules of the region, terms.
**Media** (`modules/media`): versions of scripts, storyboards, visuals, subtitles
and output specifications, render jobs and their retries, checks of the result.
**Quality checks** (`modules/qa`), **agents** (`modules/agent`) and the **knowledge
site** (`apps/knowledge-site`): pages, site, structured data, audits.
*Topics, Geo, Variants, MediaChain, RenderJobs, MediaChecks,
QualityGate, Agents, Site.*

### Not modelled

**Graph support** (`orchestration/human.py`, `replay.py`, `registry.py`, adapters,
reducers, routers): tables and conversions around the runner. **HTTP commands**
(`apps/api/main.py`): one service call per endpoint, and demo pages; the
endpoints for jobs are the callers of TaskQueue. **Support and platform routing**,
**identity** (`modules/iam`), **observability and contracts**, **LangChain
integration**, **pages and scripts**: small tables, conversions and generators.
**Control plane and storage**: adapters to PostgreSQL, Redis and object storage.
None has a protocol of its own.

## 2. The modules and the code

One rule decides where a call is cut into actions: a step is what the code does
under one lock, or in one transaction; what is read before the lock is taken is
an action of its own, and what was read is kept in a variable of the caller
(`asked`, `schedCall`, `reading`, `copies`, `planCall`, ...) until the lock is
taken. Where the whole command is under the lock, it is one action. A repeated
command that the code answers from its key and that changes nothing is left
out, unless a property is about it. Refusals change nothing and are left out
too, unless the code has changed something by the time it refuses.

### TaskQueue, JobContract

Every public command is one database transaction and one action. Only
`retry()` in `task_failure.py` reads and decides before it opens one, so it is
two actions, `AskRetry` and `DoRetry`, with whatever happens in between.

| State | Code |
| --- | --- |
| `job` | rows of `task_jobs`; `wait` and `left` count down to `available_at` and `lease_until`, `from` is `replayed_from_job_id` |
| `lease`, `issued` | rows of `task_job_leases`; tokens are numbered in the order they are issued |
| `failures` | rows of `task_failures`, oldest first |
| `review` | the `unknown_result` row of `human_tasks` for an aggregate and version |
| `asked` | manual retries between their read and their write |
| `paused` | the tenant's recovery pause |

The actions do not say who calls them: any worker may present any token that
was ever issued, at any time, and operators may report failures without a
lease. That is stronger than what the worker process does, and it is how the
HTTP endpoints can be called. Deduplication by idempotency key is kept (a row is
named by its key); a duplicate enqueue, or a failure that is already recorded,
changes nothing. Callers pass `now`; the model takes it to be the instant of the
transaction. The table also allows a status `cancelled`, which no command writes.

`JobContract` is the abstract view: a job is handed out at most `MaxRuns` times,
each time in a step of its own, and once done nothing touches it. The refinement
maps statuses to five phases and counts tokens.

### WorkerRuntime

EXTENDS TaskQueue with any number of processes: `Poll` is `run_once` up to the
claim, `Begin` is `_execute` up to the handler, `Checkpoint`, `Raise` and `Return`
are the three ways a handler meets the runtime again, `Settle` is `_fail`. A
queue command that raises ends the process (`Dies`), since nothing catches it.
A handler performs one external effect (`Act`) and may say "transient" or
"deterministic" only before it. The environment crashes and restarts processes,
requests shutdown, pauses the queue, requeues, replays and reviews. `TurnLate`
lets processes and handlers be slow from then on; before it, time waits while
something is due.

### Outbox, OutboxContract

`AskCommit` and `DoCommit` split `commit_state_and_event` where its duplicate
check ends and its transaction begins; `RetryDue`, `Claim`, `Publish`,
`PublishUnknown`, `Mark` and `MarkLost` are the steps of `dispatch_once`, each
transaction one action. The receiver is external: `sent` holds the attempts that
reached it, and an answer other than "published" or "rejected" says nothing
about that. `OutboxContract` is the abstract view: numbered attempts, each sends
at most once, and an event ends as published only if some attempt sent it.

### GraphRun

Threads call run, resume, pause and cancel. A call is split wherever another
thread may come between: the status check and the write of pause and cancel, the
kill-switch check and the node, listing the checkpoints and saving the next one,
the end of the attempt and the stored answer of a resume. `Close` writes the
attempt's outcome over whatever the status is by then, as the code does; `early`
is a history variable, the calls that were under way when the run ended and may
write over its end. Run leases are left out, since no execution consults them.

### The services

| Module | Code | State and steps |
| --- | --- | --- |
| `ApprovalDesk` | `approval/service.py`, `distribution/killswitch.py` | `approval` with its decisions, `granted` (history); one action per command. Kill switches: `switch` per scope, `setter` and `guard` for the reads before the lock, `verdict` the answer cached under a key |
| `Distribution` | `distribution/service.py`, `vertical.py` | EXTENDS ApprovalDesk: `intent`, `attempts`, `outcome`, `result` per key; `call` is an execution between the approval it was shown, the guard and the lock |
| `FakeDelivery` | `fake_workflow.py`, `fake.py`, `idempotency.py`, `retry.py`, `reconcile.py`, `deadletter.py` | `publishing` is how far a thread is in `publish()`; every call of a service is a step; the desk's commands are a read and a write |
| `Scheduler` | `apps/scheduler/service.py` | `schedCall` holds the copy a command works on; the next occurrence is the next number |
| `ModelBudget` | `model_gateway/budget.py`, the call record of `service.py` | `policies`, `reserved`, `usage`; `serving` is the call a gateway is in; a provider that says the budget is exceeded is recorded in the words of a refusal, after its reservation was settled |
| `TokenLeases` | `distribution/oauth` | sessions, codes, connections, secrets, leases; `authCall` is what a thread read before the lock; a callback whose evidence is refused has stored its secret by then |
| `Accounts` | `account/service.py`, targets of `distribution/service.py` | connections with evidence and health, `informed` (history: how much of its evidence the writer of a row knew); target versions with bindings |
| `WorkflowRuns` | `workflow/service.py`, `dispatcher.py` | `run`, `humanTask` and the events about both; then the in-memory outbox, leases and jobs |
| `Deletion` | `audit/deletion.py`, deletion plans of `geo_region/policy.py` | the request and stages in memory, on disk and in the hands of a call, with restarts; then plans, the commands they are stored under and the requests they hand over |
| `Recovery` | `audit/recovery.py`, `infrastructure/local_recovery.py` | snapshots, restores, pauses by queue, the drill over them in its own steps |
| `Metrics` | `analytics/catalog.py`, `observation.py`, `kpi.py`, `geo_quality.py` | definitions and observations with their versions, `reading` and `listed` for what was read elsewhere, `reports`; a definition is found in the catalogue or taken from the caller at its word |
| `Feedback` | `modules/feedback` | items, actions, experiments with samples, windows; commands that change something and are refused later |
| `Operations` | `operations/policy.py`, `pilot.py`, `adapters/xiaohongshu`, `scripts/open-xhs-session.py` | rules and pilots in memory and on disk; the command file, its runner and the browser |
| `PolicyGate` | `policy/gate.py`, `expiry.py` | answers by key; the gate as a list of rules of which the last that holds decides |
| `Evaluations` | `packages/prompt_registry` | versions of three kinds, runs, the case in hand and the gateway's kept calls |
| `Handover` | `manual.py`, `package_storage.py`, `webhook.py`, `matrix.py` | packages, links and their counts; receipts and replays; versions of mappings |

### The content pipeline

| Module | Code | State and steps |
| --- | --- | --- |
| `Provenance` | `provenance/source.py`, `rights.py`, `guard.py` | one source, its snapshots, the versions of a rights record, lineage; `freeze_complaint` and `expire_due` are cut where they commit; a block is kept once for an edge and a reason, `beneath` is history: the objects below a version as its freeze traced them |
| `Knowledge` | `knowledge/service.py`, `core_service.py` | EXTENDS Provenance: claims, evidence, conflicts, versions of a core |
| `Canonical` | `canonical_content/service.py` | EXTENDS Knowledge: versions of a content, their checks, the refresh queue |
| `Topics` | `modules/topic` | signals and import batches, opportunities with state events, plans, briefs, the taxonomy with the copies editors hold |
| `Geo` | `geo_region/service.py`, `policy.py`; `geo_content/fixtures.py`, `sampling.py`, `runs.py`, `service.py` | the profile, its versions, a renderer between its reads, decisions; fixtures, samples, a run between its read and its save; the file of a page and its assessment |
| `RenderJobs` | `media/render_service.py`, `render_retry_service.py` | the job, artifacts, the copies workers hold; a failure is a fact by attempt and code, and a second one of an attempt puts its schedule back to due; `retried` is history: the failures whose retry was claimed. `MaxRenders` only bounds the instance |
| `MediaChain` | scripts, storyboards, visual assets, subtitles, output specifications | one store of numbered versions per line; an editor between its read and the store |
| `MediaChecks` | `media_qa_service.py`, `media_content_qa_service.py`, `media_asset_lineage_service.py` | what each check would find, the reports, the filed edges |
| `QualityGate` | `qa/service.py`, `advanced.py`, `sandbox.py` | the questions of two checks with their findings; runs of the sandbox |
| `Site` | `apps/knowledge-site/scripts` | pages and versions, the site made of them, with the caller's path for everyone else (`NamesPath`), structured data, link audits |
| `Agents` | `modules/agent` | five agents, the definitions they register, what they read and hold, results and ledger |
| `Variants` | `modules/production` | drafts, stored versions, the region's rules, glossaries |

### What the services share

`ServicesMC` and `ContentMC` compose the modules into one instance each. Services
that share no state are not interleaved: `chosen` is the part whose commands are
called in a behaviour, so that a run goes through the states of each part, and
not through their product. Parts that do share state are one module or extend
one another, and interleave freely inside a part. A part that builds on others
begins with their records in place, as their commands would have left them
(`Cleared`, `Sourced`, `Granted`, ...), and the commands that take this ground
away again are called among its own. The operators `...Part` and `...Next` say
which commands that is. The proofs of section 4 need none of this: they are about
`PipelineSpec`, `GeoSpec`, `VideoSpec`, `WorkSpec`, `RecordsSpec`, `AccessSpec`,
`BudgetSpec`, `AnalyticsSpec`, `DistributionSpec` and `FakeSpec`, where every command
of every module concerned may come at any time.

## 3. What is checked

### Runs

| Run | Instance | Distinct states | Shows |
| --- | --- | --- | --- |
| `queue_row` | 1 row, 2 workers, 2 attempts | 182 000 | `NewestFactDecides`, `LeaseAgreement`, `AttemptBudget`, `FactsBehindAttempt`, `TerminalFrozen`, and that the queue implements `JobContract`, under every command with racing manual retries and unleased reports |
| `queue_copy` | 2 rows of one aggregate, 1 worker, 1 attempt, manual retries of both | 504 000 | `CopiedSourceOnRecord`, with requeues, replays, reviews and unleased reports of every class in any order |
| `worker` | 2 rows in batches of 2, 2 processes, 2 disturbances | 464 000 | `ExclusiveHandler`, `EffectsKept` |
| `worker_live` | 2 rows, one with an unknown job type, 2 processes, 1 disturbance | 24 000 | `EventuallySettled`, `StopDrains`, `SuccessActed` |
| `outbox` | 2 events, 2 dispatchers, 2 callers, 1 trouble | 117 000 | `PublishedSent`, `AttemptsUnique`, `WriteWithEvent`, `AttemptsBounded`, `EndedFrozen`, `EventuallyEnded`, and that the outbox implements `OutboxContract` |
| `graph` | 2 threads, 2 nodes, 2 attempts, kill switch set once | 155 000 | `SuccessComplete`, `KillStops`, `OnlyEarlyOverwrites`, `RunningEnds` |
| `services` | the 28 parts of `Services` in the configuration | 675 000 | `ReleaseGuarded`, `AttemptsKept`, `WorkHeld`, `BudgetKept`, `OneVerdict`, `AccessKept`, `RecordsKept`, `ReportsKept` |
| `content` | the 37 parts of `Parts` in the configuration | 659 000 | `RightsHold`, `Grounded`, `RefreshQueued`, `GeoKept`, `VideoKept`, `WritingKept` |

Four more runs end in a counterexample; each checks one sentence of the
repository's documents or comments against the code (section 5).

### The properties of the two large runs

Each is a conjunction of invariants of the modules; a conjunct is worded above
its definition.

* `ReleaseGuarded`: what was executed its reviewers stood behind, and no kill
  switch stood in its way from before its guard to its end. `AttemptsKept`: keys
  and attempts stand one for one, and an intent has an outcome exactly if it was
  attempted. `OneVerdict`: of a failure and a success under one attempt number
  only one is acted on.
* `WorkHeld`: an occurrence is with one worker whose lease lasts (`OneHolder`);
  the events of runs and tasks tell where they are (`RunsTold`); an event is
  taken once and published with its job (`TakenOnce`); a queued browser command
  is somewhere (`QueuedHeld`), and a draft that waits is not given up for another
  (`DraftKept`).
* `BudgetKept`: what was admitted under a limit never holds more than it
  (`WithinLimits`), and a call that ended is charged once, with its own cost, and
  one refused for its budget nothing (`ChargedOnce`).
* `AccessKept`: a denial of the gate stands whatever is unknown besides, putting
  a fact right never makes the answer worse, gate and lifecycle check agree
  (`DenialStands`, `BetterHelps`, `OneLifecycle`); a token that is served is the
  newest and was not ended, and what is revoked has no secret but the one that a
  callback left behind whose evidence was refused (`TokensServed`); a connection is
  backed by the evidence its last writer knew, and a binding by all there is
  (`ConnectedBacked`, `BoundBacked`); numbers and states of
  target versions (`NumbersFollow`, `LifecycleKept`); clicks (`ClickedOnce`,
  `ClickTold`); packages, events and mappings (`StaysShut`, `HandledOnce`,
  `MappedWhole`).
* `RecordsKept`: a deletion claims no more than its stages (`DeletionTold`), what
  is propagated was deletable (`PlansBacked`), a queue is paused as long as the
  restore that paused it last (`DrillTold`), pilots (`PilotAnswered`,
  `PilotAssigned`), evaluations (`GateSound`, `AskedWithin`, `VersionsTold`).
* `ReportsKept`: definitions in force (`MetricServed`), versions of an observation
  that name one definition, in force if one of them was looked up (`OneMeaning`), counted once by their latest version (`CountedOnce`); what
  follows was approved and is as it was told (`ApprovedFirst`, `AsTold`,
  `SamplesFrozen`, `WindowWhole`).
* `RightsHold`: every edge of a version that was frozen is blocked, and an edge to
  every object below it; and the pointer follows the version that counts. `Grounded`: what was verified rested on verified claims,
  valid evidence and verified rights. `RefreshQueued`: a version last found stale
  has one open item. `GeoKept`: one version of a region in force
  (`RegionPointer`), a run answered as it was made (`RunsAnswered`), ready for
  citation exactly if citable (`CitationSound`).
* `VideoKept`: a render that succeeded can be shown (`SuccessBacked`), no failure
  is retried twice, though an attempt may fail again by another code and be due
  again while its first retry runs (`RetriedOnce`), lines of versions
  (`LinesLinear`, `MadeOnce`, `LineageKept`, `TimeKept`), checks (`FileSound`,
  `ContentSound`, `RightsAgree`, `EdgesFiled`).
* `WritingKept`: topics (`ImportedOnce`, `BriefBacked`, `OneLive`, `StatesTold`,
  `PlanCurrent`, `TaxonomyLinear`), checks of texts (`PassedGrounded`,
  `PassedCovered`, `RunOnce`), the site (`PagesLinear`, `SiteTold`, `DataTold`,
  `AuditsTold`), agents (`ResultsBacked`, `AgentsHeld`) and variants
  (`VariantsLinear`, `VariantsBacked`, `DecisionTold`, `TermsLinear`,
  `TranslationTold`).

### Bounds, and why they are enough

* `MaxAttempts = 2` gives a first, a middle and a last attempt their own
  treatment: one failure is retried, the next one is terminal, an expired lease
  is either taken over or retired.
* `LeaseTicks`, `Timeout` and `Beat` keep the order of the defaults: in
  `WorkerSafe` the lease (2) outlives the heartbeat interval (1), as 30 s and
  10 s do; in `WorkerTimeout` the timeout (2) outlives the lease (1), as 60 s
  and 30 s do.
* One row suffices for the properties of `queue_row`: rows meet only in the batch
  of a claim, the pause, shared reviews, and copies. All
  of these are in `queue_copy` and `worker`, which have two rows; that invariants
  hold for any number of rows is proved (section 4).
* `ReportLimit = 3` lets an unleased report name an attempt beyond the last, and
  `MaxWait = 1` separates "due" from "not yet due". `Codes` has the manual-retry
  code and one other, so a repeated and a fresh fact both occur. `queue_copy` has
  manual retries of both rows and unleased reports under attempt 0, of a row
  that was never claimed: both take up a row again that was copied. One attempt is
  enough for that, and a second one multiplies its states more than thirtyfold; the
  theorems have any of them.
* `DisturbanceLimit` and the outbox's `Trouble` bound how many crashes, shutdowns,
  pauses, slow processes, unknown results or racing commits one behaviour has.
  Two disturbances of different kinds meet in `worker`. One unit of trouble in
  `outbox` is a bound on the counter that `AttemptsBounded` compares with; the
  theorem has any amount.
* `Outbox.cfg` has one payload hash: a commit that finds the key taken with
  another payload rolls back, which the second disjunct of `DoCommit` allows in
  any case.
* `AttemptBound = 2` and `SwitchBound = 1` in `GraphRun` allow one resume next to
  one run, and one kill switch; `Length = 2` has a node before and after a check.
* In `Services.cfg` and `Content.cfg` every part that overlaps has two threads (or
  workers, callers, editors, gateways), and two keys, versions or attempts where a
  property is about the second: a race needs two, and a third thread would only
  repeat one of them. Clocks have the moments before, at and after whatever falls
  due. Bounds on versions (`MaxEditions`, `MaxRights`, `MaxTargetVersions`, ...) are
  two, or three where a property compares a version with two others
  (`MaxMetricVersions`) or a third takes away what two gave (`MaxProofs`). `MaxRunVersion = 4` lets a run end and be moved once more.
  Sets of requests (`MC...` in the two modules) hold one of each kind that the
  code treats differently.
* Workers in `TaskQueueRow`, and workers and rows in `WorkerSafe`, are
  interchangeable and checked up to symmetry; no run with a liveness property
  uses symmetry. Deadlock checking is off in `GraphRun`, `Services` and `Content`:
  a graph run that has ended, and a service that has used up its bounds, may
  leave nothing to do.

### Fairness

* `worker_live`: `run_until_stopped` loops, so `Poll`, `Begin` and `Exit` are
  weakly fair; a handler returns, raises or notices its deadline at a
  checkpoint, so `Handle` (any of the three) is; the deployment restarts
  processes; a drill that pauses a queue releases it; time passes. Nothing is
  assumed of enqueues, operators, crashes, or that a handler succeeds.
* `outbox`: dispatchers loop and are restarted, publishers answer, time passes.
  Which answer they give is left open, and so are commits.
* `graph`: a call that has begun goes on. No new call is assumed.
* The services and the content pipeline are called by users and operators, of
  whom nothing is assumed; what is checked of them is safety.

## 4. What is proved

Eight modules prove, for any sets of rows, workers, callers, events, people,
claims, versions and so on, and for any bounds that meet the named assumptions,
what the runs check on one instance. They hold 60 listed theorems; nothing is
assumed but the `ASSUME`s of the modules, which TLC evaluates on every run.

**The queue** (`WorkerProofs`). `TypeCorrect`, then `QueueInvariant` :
`Spec => []QueueInv`. None of the safety properties is inductive alone.
`FactsBehindAttempt` needs `LeaseAgreement` to know that a held row's token is the
newest, `AttemptBudget` needs that a retry is scheduled only with an attempt
left, and facts of a new row need that an unused key has none (`Blank`). A row
that is not ready never has a delay (`Due`), which says that retirement and
completion leave nothing behind. The proof first shows that every action acts on
each row in one of a few ways (`RowStep`, lemma `RowSteps`), then treats the
conjuncts row by row, so a claim of any number of rows is one case.
`LeasesAgree`, `BudgetKept` and `FactsInOrder` follow; `TerminalRowsFrozen`
proves the action property, and `QueueImplementsContract` the refinement of
`JobContract`: a claim maps to one `HandOut` of a set of jobs, every other command
to one `Create`, `Settle` or stutter of one job.

`NewestDecides` and `SourcesOnRecord` say what is left of "an unknown result stays
failed" and "the source of a copy never runs again", both of which the code breaks
by a manual retry decided early (`queue_retry_race`) and by an unleased report of
class "transient": a row rests exactly while its newest fact is deterministic or
unknown, and a copied row runs only with the transient fact on record, right
behind one that had failed it, that took it up again. `RecordInv` joins the two; a
row with no fact rests never, a fact once filed stays, and only `Record` moves a
row away from where its newest fact put it (lemmas `DecidedStep`, `RetiredStep`,
`RevivalKept`). Neither needs a restriction on who reports or retries what.

**The worker** (`WorkerProofs`). Every step of a process is a step of the queue
(`WorkersUseQueue`), so `QueueInv` carries over. `WorkerInv` adds that leases in
hand were issued and each is in one process (lemma `OneGrant`), and that effects
are paid for with tokens: the effects of a row and the tokens under which one
may still happen are together no more than the tokens issued (`Paid`). From it:
`EffectsPaid` (at most `MaxAttempts` effects of a row, whatever is killed, paused
or late) and `SuccessesActed`. `PunctualInv` adds that the leases in hand are
alive as long as nobody is late. It needs the hypothesis `Beat < LeaseTicks`
(heartbeats come before leases end), which the defaults of the code meet with
10 s and 30 s, and which the two theorems about punctual processes,
`HandlersExclusive` and `EffectsOnce`, state.

**The outbox** (`OutboxProofs`). `OutboxInvariant` : `Spec => []OutboxInv`.
`PublishedSent` needs that a dispatcher holding a positive answer has sent the
attempt it holds (`AnswerSent`), which needs that attempts in hand are distinct
and unsent (`AttemptsUnique`, `Issued`, `BatchDistinct`). `AttemptsBounded` is the
hard one: claim compares no count, so the bound is kept by an argument about who
holds the last attempt. `BudgetKept` says that an event at its bound is in the
hands of a dispatcher all of whose locks are as its claim left them (`Fresh`);
that dispatcher either marks it, which ends it, or loses it through a crash, an
unknown result or a tick, each of which raises the bound by one.
`PublishedSentAlways`, `AttemptsUniqueAlways`, `AttemptsBoundedAlways`,
`EndedFrozenAlways` and `OutboxImplementsContract` follow. `WrittenWithEvent` has
an invariant of its own, `CommitInv`: the state writes of an event are counted
against the callers that had asked before it existed.

**The graph runner** (`GraphRunProofs`). `GraphInv` says what each call in
progress knows of its attempt (the nodes before the one in hand have returned in
it) and that other threads only add to that (`Grows`, lemma `OthersKeep`), so a
success speaks for all nodes: `SuccessIsComplete`. `KillStopsCalls` counts the
nodes a call may still run. `EndedOverwritten` is the action property: whoever has
still to write a run that has ended had begun when it ended (`Overdue`), so no
resume, pause or cancel that comes later touches it.

**Delivery** (`DeliveryProofs`). `DeliveryInv` joins the desk (whoever was granted
has its quorum of reviewers, none the requester, for as long as it stands), the
switches (a guard that will allow has seen no switch that stood since it began)
and executions (an attempt belongs to its key, an outcome to an attempt). It
gives `ReleasesGuarded` and `AttemptsStand`. `FakeInv` rests on one fact: a verdict
that was accepted stays (`VerdictsStay`), so what a thread holds of it goes on to
be true; `OneVerdictAlways` follows.

**What content stands on** (`ContentProofs`). `PipelineInv` = `ProvInv` /\ `KnowInv`
/\ `CanonInv`, over `PipelineSpec`, in which sources, knowledge and content are
moved by their own commands at any time. The three are joined by what is never
taken back: `GroundKept` (a right that was verified was verified, a snapshot that
settled stays settled) is all that knowledge needs of a step of the sources, and
`KnowledgeKept` all that content needs of a step of knowledge. `RightsHoldAlways`,
`GroundedAlways`, `RefreshQueuedAlways` and `PipelineTyped` follow.

**GEO** (`GeoVideoProofs`). `GeoInv` = `RegionInv` /\ `RunInv` /\ `AssessInv`, three
services that share nothing, each with its own frame. `RegionInv` needs that an
activated version is never a draft again; `RunInv` that what is saved under a
hash is the aggregate of the request in that hash, since the fixture may be
another by then; `AssessInv` that every report is the assessment of the file it
was made of, from which `CitationSound` follows by cases. `GeoKeptAlways` and
`GeoTyped` follow.

**Video** (`GeoVideoProofs`). `VideoKept` is proved over `VideoSpec`, which starts
with nothing made and lets render workers, editors of the five stores and the
checks of an asset move at any time. `VideoInv` = `RenderInv` /\ `MediaInv` /\
`CheckInv`. `RenderInv` says of a copy a worker goes on with what it says of the
job: its artifact is one that was stored; and that whoever carries out a retry
claimed it, that a schedule that is due is for a failure no retry was claimed for,
and that a worker who is about to put a schedule filed its failure itself, as a
fact there was none of. So an attempt may be due again for another code, but no
failure is retried twice. `MediaInv` says
that a version fits its kind, is made of what belongs together, and follows the
one before it; the current version of a line carries the highest number, there
is one version for each number below it, and a draft in an editor's hands is
as fit as a version, of whatever came in between. What a version is made of is
never taken back, so this needs no lock over two stores. That every moment lies
in exactly one shot, and under at most one subtitle, is not an induction over the
plan: among the shots that end after the moment there is a first, and the one
before it has ended (lemmas over the least element of a set of numbers).
`CheckInv` says that a report or a lineage is what its findings make of the facts
it was made of, and that the edges filed name all that the last lineage rests on,
although earlier ones are overwritten by number. `VideoKeptAlways` follows, conjunct by conjunct.

**Work in the services** (`ServiceProofs`). `WorkHeld` is proved over `WorkSpec`, in
which the scheduler, the workflow runs with their dispatcher and the operator
session each make their own steps, at any time and in any order, while the
other services do what they like with their own variables. `WorkInv` = `SchedInv`
/\ `FlowInv` /\ `OutInv` /\ `WindowInv`. `SchedInv` says of every lease that was
handed out that it is finished, has expired or is still the lock on its job, and
that no claim's clock is ahead. `FlowInv` says that what a run was told is never
taken back; a pause brought by an expired task stays told although the run
moves on. `OutInv` says that an event nobody has answered was not taken, and that
a job never loses its key or its payload, so that what was refused once is
refused again. `WindowInv` says that a runner who waits has no command in hand.
`WorkHeldAlways` follows, and `WorkHeldInServices` carries it to the
specification that the run `services` checks, every step of which is a step of
`WorkSpec` (lemma by service, then by command).

**Records** (`ServiceProofs`). `RecordsKept` is proved in the same way over
`RecordsSpec`, in which deletions, deletion plans, recovery drills, pilot runs and
evaluations are moved by their own commands. `RecordsInv` has one invariant of
each.

* `ErasureInv`: evidence of a stage was taken after its store was emptied, and
  what a call carries to its write it has found so; the status is that of the
  stages at every write, whichever version the writer had read.
* `PlanInv`: what a key handed over was deletable, and a queued plan has the
  request of its key, wherever the plan is - in the hands of a call, under its
  key, or stored - so no order of calls and restarts puts it beside the request
  of another.
* `DrillInv`: rows of the source have their objects, so every image taken of it
  has; a driller who goes on to the rows holds the objects of the snapshot in a
  store that only grows. `PausesHold` says that the restore that paused a queue
  last is the one whose release resumes it. The argument is that all a drill
  relies on only grows (lemma `DrillMoves`).
* `PilotInv`: a run that was answered as ended is so in memory and on disk; one
  whose save failed was never answered.
* `EvalInv`: a run, in progress or stored, has spent no more than its thresholds
  allow, result by result and in total, and says of no case that it passed but by
  an answer the gateway keeps for that case and prompt. Answers kept are never
  replaced, so a repetition of a run that raised comes to the same results.

`RecordsKeptAlways` follows part by part, and `RecordsKeptInServices` carries it to
the specification the run `services` checks. The proof corrected the model in one
place: `DrillTold` had said that a store holds exactly the objects of the snapshot
restored into it, which is false of a store an empty snapshot was restored into
and another after it; it holds at least those.

**Access** (`DeliveryProofs`, `KeptProofs`). `AccessKept` is proved over
`AccessSpec`, in which each of the services below is moved by its own commands at
any time. They share nothing, so `AccessInv` joins one invariant of each.

* `GateInv`: an answer under a key is the judgement of the question asked. The
  rest is about the judgement. The last rule that holds decides (lemma
  `RuledLast`), so what each policy says has a closed form (lemma `PoliciesRuled`),
  and a denial or a fact put right is read off that form.
* `TokenInv`: the lease a connection has is its newest and is open, a call about
  to close a lease holds one that was issued, and what is revoked has no secret but the one left by
  a callback that came after it and whose evidence was refused (`LeftBehind`).
* `AccountInv`: evidence is only added, and a row says connected only if what its
  writer knew of it backed it that day, also when it was written from an old copy
  or by a check that new evidence overtook; a target version was made over proofs that were there when it was made.
* `TargetInv`: a version, and the copy a worker is about to write over it, has a
  number above all its maker saw, and states that led to the one it has.
* `WindowInv` /\ `ClickInv`: a launch is in one place, its request, the file of
  commands or the hand of one runner, and is not waiting in any once its button
  was clicked; one runner at a time has a window. A runner that empties the file
  takes what it saw in it; what came in between is dropped, not handed on.
* `HandInv`: what was shut is never on the shelf again and no link outlives its
  package; a delivery that waits was not handled, and was tried less often than
  makes it a dead letter; a matrix sends no two fields as one.

`AccessKeptAlways` follows part by part, and `AccessKeptInServices` carries it to
the specification the run `services` checks.

**Money** (`KeptProofs`). `BudgetInv` says that a key has one reservation or one
charge at most, that a gateway in a call has its reservation, and `WithinLimits`.
What is held under a limit is a sum over reservations and one over charges, of any
length. Facts about sums cannot be had by an induction theorem here; a sum over a
set is instead the last value of a function on its subsets (`SumsUpTo`,
`SumUnfolds`), and what holds of it is proved of a smallest subset it fails of
(`SmallestSet`): sums of equal terms are equal (`SumsAgree`), and a sum is any
of its terms and the sum of the others (`SumLess`). A new reservation
was checked against all that may be counted with it, a settlement takes a
reservation away and adds no more than it held, and another day or policy makes
no sum larger (`LaterLess`). `BudgetKeptAlways` and `BudgetKeptInServices` follow.

**Reports** (`KeptProofs`). `ReportsKept` is proved over `AnalyticsSpec`, in which
definitions, observations and reports, and what follows from them, are moved by
their own commands. `MetricInv` says that definitions are put in force one after
the other, that the versions of an observation name one definition, which was in
force if any of them was looked up, and that what is listed was stored. What a
report counts is the result of a fold over the list in one order or the other;
that it holds the latest version of each measure (`LatestIs`) is proved along the
places of the list by the same smallest-counterexample argument. `FeedbackInv`
keeps of every item, action, experiment and window what its events have told.
`ReportsKeptAlways` and `ReportsKeptInServices` follow.

**The assumptions** are those the modules name: null markers and the markers for
"no launch" are not members of the sets they stand beside (`LaunchesNamed`),
bounds are natural numbers, positive where the code rejects zero, tables that map
one thing to another map into the set they should (`KnowledgeBounds`,
`CanonicalBounds`, `GeoAssessAssumption`, `RegionBounds`, `CheckBounds`), thresholds,
costs and budgets are natural numbers and what is registered is of its kind
(`EvalBounds`, `MCVersions`), stages and items come in sequences (`DeletionBounds`,
`OperationsBounds`), what is said of a fact is one of the values it may have and
a consent is among the proofs required (`GateBounds`, `AccountBounds`), requests
for a package give a time and deliveries may be handled at least once
(`HandBounds`), segments, shots and cues are given by natural numbers with segments in order (`MediaBounds`), limits are of one of three scopes and three periods
(`BudgetBounds`), the markers "none" and "-" are no key, no error code, no metric and
no fact (`BudgetBounds`, `RenderAssumption`, `MetricBounds`, `FeedbackBounds`), the
recorders, keys and the measure the instance names are there (`ServicesBounds`), and
the sets of rows, events, callers and measures are finite, as those of a program
are.
`GoodBounds` says what good facts are and is used for `BetterHelps` alone.

### What is only model-checked

* All liveness (`EventuallySettled`, `StopDrains`, `EventuallyEnded`,
  `RunningEnds`), which TLAPS does not prove.
* `ServicesTypeOK` and `ContentTypeOK` as a whole; their parts for the modules
  above are proved.
* `WritingKept`: a conjunction over many services, most of whose parts are about
  one service alone.
* `UnknownStaysFailed`, which is false and whose run shows it.

## 5. Where documents and code differ

Four runs end in a counterexample:

* `queue_retry_race`: `retry()` checks a row before its transaction and then
  turns an unknown result recorded meanwhile into a scheduled retry, without the
  review that `docs/tasks/FOUND-004D.md` requires.
* `worker_timeout`: with a timeout longer than the lease, a handler that passes
  no checkpoint can no longer record that its result is unknown; the job is
  executed again without a review.
* `outbox_unknown`: a comment says that an unknown publication must not create a
  second external request; when its lease expires, it does.
* `graph_resume`: resuming starts at the first node again whatever the checkpoint
  says; `docs/tasks/GRAPH-CORE-005.md` asks for no repeated side effects.

`PROJECT.json` lists some fifty more under "findings", each with the line of the
code and the sentence of the document. The models do what the code does in each
case, and the properties are worded so that they hold of it. Most are of one of
three kinds:

* a command under a known key is refused instead of answered, because the moment
  of the call, or a version, is compared or hashed before the key is looked up
  (policy gate, quality checks, site pages, deletion plans, feedback, media);
* something is changed before the command is refused: feedback actions and items,
  a budget reservation, a decision of the region's rules, the memory of the pilot
  runs when the file cannot be written;
* a copy read before the lock is written back over what another command decided:
  account health, render jobs, packages, definitions of agents.

## 6. What is left out, and the plan

The map covers about 30 % of the implementation's lines. Left out on purpose: SQL
isolation below one transaction per command, polling and listing, the canonical
form and secret scan of payloads, hashes beyond equality, logging, metrics and
audit rows, HTML and HTTP plumbing, calculations of scores and rates. Tenants
other than one are left out wherever every query names the tenant.

What comes next, in order:

1. Proofs of the other lines of versions, `VariantsLinear`, `TermsLinear` and
   `PagesLinear`, by the argument of `LinesLinear` (a store that takes a version
   only after the one its writer expected), and `ResultsBacked` of the agents.
2. Authorization decisions and expiry reminders of `provenance/guard.py`, which
   are appended and read by nothing so far.
