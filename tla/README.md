# Atlas Manager: a TLA+ verification project

Atlas Manager is a Node process that keeps the services of one machine as their
weekly schedules ask (starting and stopping them in dependency order), switches
the machine itself off and on again, runs registered backups, and lets operators
do the same by hand through an audited HTTP interface with a dashboard. This
directory models its control, with the concurrency, failures and restarts it
meets; checks the models with TLC on small instances; and proves most of their
safety with TLAPS, for instances of any size. Paths below are relative to the repository.

Four facts about the program shape every model:

* **One process, one event loop.** Code between two `await`s runs undisturbed;
  every `await` lets another request, timer or signal in. A model's step is what
  runs between two awaits that matter.
* **State is in files that outlive the process.** Cursors, claims, policies and
  histories survive a crash; memory does not. The unit has `Restart=no`: a dead
  process comes back when an operator starts it.
* **The wall clock can be set.** The schedulers read it anew in every cycle.
* **What answers may be late.** A helper process, the identity provider and the
  server behind the dashboard answer after a timeout, out of order, or never.

## 1. Inventory

| Component (source) | State | Operations | Interacts with |
| --- | --- | --- | --- |
| Dependency graph (`src/service-management/domain/dependency-graph.ts`) | none | closure, topological orders, cycle detection | built once at start, used by everything that starts or stops |
| Orchestration (`plan-` and `orchestrate-registered-service-*.ts`, `wait-for-registered-service-readiness.ts`) | progress of one orchestration | start, stop, restart of a target with what it needs | called by the reconciliation scheduler and by administrative requests; calls adapters |
| Reconciliation scheduler (`run-service-availability-reconciliation-*.ts`, `execute-*-occurrence.ts`, pruning) | cursor file, claim file | one cycle: tick, pruning, advance | reads policies and overrides, calls the orchestrator |
| Policies and overrides (`src/service-scheduling/domain`, stores) | policy and override files | evaluate, transitions, validate, set, cancel, update, remove, prune | edited by administrators while cycles run |
| File stores (`src/*/infrastructure/file-*-store.ts`) | one JSON document each, its temporary files, a queue | find, save, remove, compare and set, claim, prune | every scheduler and every administrative change |
| Application lifecycle (`src/main.ts`, `src/lifecycle`, the `*-scheduler-loop.ts` files) | loop phases, shutdown promise, exit code | start, cycle, stop, signal, fatal error | owns every loop and the HTTP server |
| Machine power (`src/power-management`) | policy, cursor and claim files, RTC alarm | plan, tick, readiness, preparation, claim, wake alarm, power-off | stops services, reads backup readiness, calls the helper |
| Power helper (`power-helper/`, `node-linux-power-helper-transport.ts`) | call queue, helper processes, lock file, RTC alarm | read, schedule, cancel, power-off | called by the scheduler and by administrators |
| Backup scheduler (`run-backup-scheduler-tick.ts`, `file-backup-scheduler-state.ts`) | cursor and claim files | one tick | runs backups |
| Backup runs and retention (`run-registered-backup.ts`, stores, adapters) | history file, artifact directories, gate | run, prune, readiness | asked by machine shutdown |
| Event history (`src/event-history`, `src/maintenance`) | segmented hash-chained log, journal, writer lock, exports | append, rotate, prune, export, page, recover | called around every administrative operation |
| Administrative API (`src/http`, `src/access-control/composition`) | admission, gates | admit, check, authorize, audit, invoke, answer | history, orchestration, power, backups |
| Access control (`src/access-control`) | cached keys, shared refresh | verify an assertion, refresh the keys, readiness | identity provider, API |
| Dashboard (`src/dashboard`) | sections, loads, list of events, drafts, prepared shutdown | load, poll, operate, page, edit, save, prepare, execute | API |
| CLI, configuration, diagnostics, readers | little or none | parsing, presentation | the API; once at start |
| Deployment tools (`deployment/`, Go) | installation on disk | install, update, lifecycle | outside the process |

What is hard here: an occurrence must be carried out once although the process
may die between its claim, its effect and the cursor; a cursor must not pass work
that failed; schedulers, administrators and dying services interleave over one
dependency graph; a shutdown must stop loops that are in the middle of a cycle;
the machine must not be switched off over running work or without an alarm that
brings it back; files are written in several steps, each of which may be the
last; an effect must be authorized and audited before it happens and reported
truthfully after; keys are refreshed once for many; a page must not show an old
answer over a new one. `PROJECT.json` lists each hazard at its line, with the
properties aimed at it, or the reason there is none.

## 2. Modules

| Module | Models | Composed from |
| --- | --- | --- |
| `ServiceDependencyGraph` | the graph's pure functions | |
| `DependencyGraphInputs` | every configuration of a size, and what its graph should be | the graph |
| `ServiceOrchestration` | plan, control and readiness wait, any number of callers | the graph |
| `ReconciliationScheduler` | a cycle, await by await, with its files and editors | the graph |
| `ReconciliationLedger` | abstract: what the scheduler promises | |
| `ApplicationLifecycle` | loops, runtimes, signals, graceful shutdown | |
| `MachinePowerScheduler` | tick, execution of an occurrence, RTC and power | |
| `WeeklySchedules` | windows, their two validators, three readings of an instant | |
| `WeeklyScheduleInputs` | every list of windows, and what should be accepted | weekly schedules |
| `MachinePlans` | the plan shown and the shutdowns generated, policies and restarts | weekly schedules |
| `ServiceIntervals` | is a service required while the machine is off? | weekly schedules |
| `PowerHelperProtocol` | requests and answers, as client and helper judge them | |
| `PowerHelperOutputs` | everything a helper could print | the protocol |
| `PowerHelperClient` | queue, timer, helper processes, their lock and the clock | the protocol |
| `BackupScheduler` | backup tick, claim and cursor files | |
| `BackupRuns` | run of a backup, history, artifacts, retention, readiness | |
| `Listings` | filtering and sorting of arrays | |
| `StoreOperations` | what the operations of the file stores compute | listings |
| `AtomicStore` | abstract: what a store promises | store operations |
| `FileStores` | queue, temporary file, sync, rename, power failures | store operations |
| `AuditLog` | abstract: what the history promises | |
| `EventHistory` | append, rotation, retention, export, restart, lock, paging | listings |
| `AdministrativeVocabulary` | operations, permissions, routes, accepted events | |
| `AdministrativeRequests` | a request from admission to answer | the vocabulary |
| `AccessKeys` | assertion, key cache, shared refresh | |
| `Dashboard` | sections, refresh coordinator, polls, operation buttons | |
| `DashboardEvents` | list of events, cursor, "Load more" | |
| `DashboardPower` | wake and shutdown controls | |
| `DashboardPage` | the three above, in one browser | all three |
| `ScheduleEditor` | weekly schedule editor | |

The theorems of section 5 are in eight modules, named after what they are about:
`ReconciliationSchedulerProofs`, `MachinePowerProofs` (scheduler and helper client),
`DependencyGraphProofs`, `ServiceControlProofs` (orchestration and application lifecycle),
`BackupProofs`, `PersistenceProofs` (file stores and event history),
`AdministrationProofs` (access keys and requests) and `DashboardProofs` (page and schedule
editor).

The modules starting with `MC` give constants their values and put related
components side by side (section 3). A definition marked "Variant" is a wrong form
of the definition after it, the way a change of that code could go wrong. The ones
`PROJECT.json` lists under `mutants` show, one for each property, that a run
notices; the others do the same for one part each of the conjunctions below:
with such a variant put in the place of its original, the run fails in that part.

### How state and actions correspond to the code

**ServiceDependencyGraph.** `ComputeClosure` is the work-list of `computeClosure`;
`KahnBatches` is the rounds of `topologicalSort`'s queue, sorted within a round as
the code sorts them; `DetectCycles` and `CreateDependencyGraph` are the startup
checks. `DependencyGraphInputs` compares them with definitions that mention no
algorithm (least closed set, order between two positions).

**ServiceOrchestration.** `orch[c]` is the local state of one `execute()` of caller
`c`: validation of a scheduled start's dependencies, one snapshot per await, the
plan computed from the snapshots, then one control command or readiness poll per
step. A failing command may have had its effect (`ControlFails`). The planner is
modelled as written, including a restart's stop order, which
`topologicalDependentsFirst` closes over dependents that were not running.

**ReconciliationScheduler.** `pc` says at which await a cycle is; `seen`, `from`,
`until`, `todo`, `pending` and `current` are the cycle's locals; `cursor`, `claims`,
`policy` and `override` are files. Reads that follow each other without an effect
in between are one step. Weekly windows are sets of open minutes. `attempts`,
`generated`, `origin` and `previous` are history variables. A file write is one
step that happens or does not: the stores write a temporary file and rename it.

**ApplicationLifecycle.** `phase[l]` is a loop's state, `micro` the promise
reactions that are queued. A timer, a signal or settled I/O runs only when `micro`
is empty, which is what the event loop guarantees; the order among reactions is
left open.

**MachinePowerScheduler.** `tick` is the tick, `exec[a]` the execution of an
occurrence by the scheduler or by an administrator; `stage` distinguishes the
first readiness reading, the preparation's and the final one. `alarm` and
`machine` are hardware; a helper call that fails leaves its effect done, half done
(the old alarm cleared) or not done. `since` records work started after an actor
looked at it. An administrator may send any occurrence that is due: the policy's, or one
of `Submitted`, which need not be in the policy and may overlap what the scheduler
executes. `alarmFor` remembers for which occurrence the alarm was last asked.

**BackupScheduler.** `tick.pc` says where a tick is. The claim file is a sequence of
lines: an append can be cut short (`TornLine`), and the next append then continues
the fragment (`BadLine`). `cursorSeen`, `claimsLoaded` and `claimsSeen` are the
stores' memory, marked as loaded *before* the file is read, as in the code: a load that
fails, on a damaged file or on a sound one, leaves the memory with what it met. Every
reading of the clock is an arbitrary instant, so no clock variable is needed.
`tick.due` is the set of occurrences a tick has left; `Turn` takes the one that is
first by `Before`, the order of the code's sort. The backup run itself is refused,
succeeds or fails.

**BackupRuns.** `runs` is the history file, `artifacts` and `debris` the directories
(published; candidate or half removed), `op` the holder of the gate. Each append
takes a lock directory that a crash leaves behind.

**WeeklySchedules, MachinePlans, ServiceIntervals.** Time is counted in fractions of
a minute because the code samples a schedule once a minute, *counted from wherever
a search starts*. The machine's validator (sorted, neighbours compared) and the
services' (pairwise) are both there, and so are the separate searches: the plan's
next transitions, the shutdowns of a tick's interval, the first instant at which a
service is required. A saved policy is stored and shown, and never used: the
schedulers keep the environment's (`environment`, `persisted`).

**PowerHelperProtocol, PowerHelperClient.** A JSON object is a function from its
fields. `SuccessValid` and its neighbours are the checks of the transport (which
knows the operation) and of the adapter (which knows the request); `Helper...` is
what the Go program answers. In the client, `queue` is the promise chain `#tail`,
`running` the call in it, `helper[c]` a process that may still be alive after
`FailCall` has answered its caller; `LockFree` is the helper's `flock`.

**FileStores.** `work[c].step` is the await an operation is at: read, open, write,
sync, close, rename, clean up, each of which may fail. `versions` are the contents the
target may have after a power failure, because the directory is never synced:
`PowerLoss` keeps any of them and what was synced. `StoreOperations` holds the six
kinds of operations and the checks a parser makes on the way back.

**EventHistory.** Every file system call is a step of `pc`, each may fail or be the
last. `segments`, `active`, `ledger`, `transaction` and `exports` are the files;
`Reconstruct...` is what a start accepts of them. A record is its number and its
event, which stands for its hash. The maintenance tool (`tool`) and a paging client
(`reader`) run beside the server.

**AdministrativeRequests.** `todo[r]` is the list of steps the handler of `r` has left
(`HandlerSteps`, one list per route family, in the order the code has them), so a
check that is moved, lost or doubled is a different list. `pending` is the decision,
then the result; `trail[r]` what the history keeps of the request: a store may keep
a record and still fail the call. `inside` are the releases a handler owes. An
operation may return having done all, a part or nothing of what it was asked
(`ReturnedExtents`): the runner records whatever is returned as succeeded, and the route
answers 200. `200_incomplete` is the 200 whose body says that something was left undone
(`successful: false`, `partial`, `busy`, `blocked`, `incomplete`, `conflict`).

**AccessKeys.** `jwks` holds the fields of the provider, `flight` the one refresh that
requests join; `history` and `retiredAt` are history variables. The request's time
is the one it read at its start. Signature, JSON and base64 are one outcome each.

**Dashboard, DashboardEvents, DashboardPower, ScheduleEditor.** The parts of the page share
no state, so `DashboardPage` conjoins their specifications. A load carries its generation, a read its version or page from some moment between sending and
answering. `Apply` is the coordinator's check. A loader that has more to read after its
first read (`Detailed`) sends that read when the first has succeeded; the load's `later`
stands for all of them. If it fails the section is rendered without it, as
ready: `blank` holds the sections whose last rendering lacks its later part, `details`
the version a later part was last shown at. The editor keeps its draft in `fields` and in
`windows`, as the code does. `subject` is whose editor it is: both kinds have the same
handlers, but the editor of a service looks for `policy.windows` where the server answers
`policy.schedule.windows`, and finds none (`ReadPolicy`).

## 3. Runs

A component keeps its own state: what crosses from one to the next (the result of
an orchestration, the outcome of a proof of identity, the answer of a helper) is an
input there, with every value it can have. Related components are therefore
checked side by side in one run: `part` picks the component or the instance a
behaviour is of, and the others rest in their initial state. An `MC` module EXTENDS the
components whose definitions it checks as they are (why some modules give their names
a prefix: `RunsNext`, `AccessNext`, `HistoryNext`, `EventsNext`) and takes an
INSTANCE for a part with other constants. A property that speaks of several parts is the
conjunction of what each of them states.

| Run | Shows | Parts and instances |
| --- | --- | --- |
| `service_control` | orchestrations keep the order and end; the process shuts down; every helper call is answered, once | `orchestration`: 3 services in a triangle, one health-checked, one that cannot be restarted, 1 failing call, 1 dying service. `lifecycle`: 2 loops, the backup loop, 2 requests. `helper`: 2 calls |
| `scheduler` | at most once, no gap, bounded claims, pruning, the ledger, progress | 2 services, 3 minutes, intervals up to 2, 1 fault or crash, 2 edits |
| `machine_power` | a shutdown is executed once, over an alarm, never over work it has seen | `scheduler`: 2 shutdowns, 2 services and a backup, 1 fault, 1 start of work. `with a failing call`, `two operations`: the scheduler beside 1 administrative operation with a fault, or 2 without, among them the execution of an overlapping occurrence that wakes later. `helper`: 2 calls of 4 kinds, one to a time within a second |
| `planning` | the pure computations are exact | `graph`: every graph on 4 services, one of which may name an unknown one. `windows`: every list of up to 4 windows (3 allowed) in a week of 2 days of 3 minutes. `plans`: every policy of up to 2 windows, every instant of more than 2 weeks, 2 days of 4 minutes. `restarts`: a save or removal and 2 restarts. `intervals`: every policy, override and interval. `helper`: every request and output |
| `backups` | claims, cursor, retention and readiness with failing loads, torn writes and crashes | `scheduler`: 2 targets, 3 windows, tick limit 2, claim file of 2 lines, edits of one target's schedule, unlimited crashes and failing calls. `runs`: 2 targets, 3 runs, unlimited faults and crashes |
| `persistence` | history and stores implement their abstractions | `history`: 3 events, 2 lives of the server, a recovery, a paging client. `retention`: two policies, exports. `resized`: a restart with another segment size. `stores`: all 8 stores, 2 callers, 2 entries, 2 values, 1 stop or power failure |
| `administration` | authorization, audit, answers, gates, keys, the editor | `permits`: 3 requests, 2 permits, one gate, crashes. `catalogue`: every operation, 3 callers, one request asking. `credentials`: 18 credentials, one per defect, 2 requests. `refreshes`: 3 requests, 2 keys, one change of them. `edits`, `savings`: 3 policies, the editors of a service and of the machine, with 2 edits and a request, or 1 edit and 2 requests |
| `dashboard` | nothing old comes back, everything settles | `sections`: 3 sections, 2 loads each, an operation, later reads of Services. `events`: 5 events, pages of 2, 3 loads. `power`: 3 renderings, 4 mutations. `requests`, `keys`: 2 requests each, for liveness |
| `restart_restores`, `concurrent_callers`, `claim_replay`, `claim_rerun` | disagreements between documents and code (section 6) | the smallest that shows them |

**Why the bounds are enough.** The interesting cases are short: a crash, its
restart and a second pass over the same interval need one fault and two cycles;
an occurrence needs one transition; an order needs a chain of two dependencies and
a shortcut, which the triangle has; a cut by a limit needs one more than the limit,
which three requests for two permits, four windows where three are allowed and
three occurrences for a tick of two are. Ticks of half a minute give cursors of both phases
relative to the minute, on which the sampling searches depend; a week of two days
has a first day, a last day and the turn between them. A rotation needs one event
more than a segment holds, a pruning one segment more than the policy keeps. A
superseded answer needs two loads, and so does a later part that becomes blank and comes
back; the later reads of the other sections are the same steps again, and Services is
the one that is also polled and reread. A poll may come at any time, which covers a tab
that is hidden and shown. A joined refresh needs two requests, and the third comes while
it is cooling down. One occurrence of an administrator's own is enough to overlap the
policy's from either side. For 32 of the properties the bounds do not
matter: section 5 proves them of every instance. Every disjunct of every next-state
relation fires in a passing run. `SYMMETRY` is used for identities no action orders:
callers of the helper and of a store, requests.

**Deadlock** is checked in `scheduler` and `backups`. In the other runs something
ends by itself: the process has exited, the clock is at its horizon with the machine
off, every request is answered, or a computation has its result.

### The properties

*`service_control`.* `OrchestrationIsOrdered`: nothing is stopped or restarted under a
running direct dependent (`StopsDependentsFirst`); a start follows the caller's own
observation of every direct dependency (`StartsAfterDependenciesReady`); a successful stop
leaves no dependent up; a scheduled start respects its dependencies' availability;
only what was down is started. `OrchestrationEnds`: a result comes even if a service
never gets ready and the clock stands still; the attempt limit is what guarantees it.
`ShutdownLosesNoLoop`: a settled shutdown has waited for every loop, and an abnormal
end always reaches the exit code. `NoWorkAfterShutdownRequest`, `ShutdownSettles`.
`EveryCallSettles`: a helper that hangs holds neither its caller nor the queue, and
nothing it does later changes the answer.

*`scheduler`.* `AtMostOnce`: the orchestrator is called at most once per
occurrence. `NoGapBehindCursor`: behind the cursor every minute was generated for
every service. Together they are the two halves of the cursor-and-claims protocol,
and a change that repairs one easily breaks the other. `ClaimRetentionBounded`: the
claim file does not outgrow an interval. `PrunerSparesLiveOverrides`: the conditional
removal does not lose an override stored meanwhile. `ImplementsLedger`: refinement.
`HaltsOrCatchesUp`: the loop ends visibly or reaches the last minute.

*`machine_power`.* `CursorPassesOnlySettled`; `OnceAheadOfCursor`: ahead of the cursor
an occurrence has its effects once, whether the scheduler or an administrator sends it;
`WakeBeforePowerOff`: a power-off has the alarm its own execution set, unless an edit, its
time, a clock set back or an overlapping occurrence of an administrator took it away in
between; two occurrences of the policy never do that to each other. `NoPowerOffOverKnownWork`:
what still runs started after the last look; `PreparationStopsDependentsFirst`. `HelperAnswersAreTrue`: a transition a caller is
told of happened as told, no left-over helper wrote between its read and its
verification, and a success is in the clock until somebody else writes.

*`planning`.* `GraphFunctionsAreExact`: cycle detection accepts exactly the acyclic
configurations, the closure is reachability, both orders are right.
`WeeklySchedulesAreExact`: both validators accept exactly the lists of disjoint windows and
agree, and a service is required for an interval exactly when some instant of it says so.
`PlansAreKept`: the searches end, the plan shown is the one carried out, shutdowns and
wakes alternate. `HelperOutputsAreUnderstood`: of everything a helper could print the client
returns exactly the successes the helper can mean, and every refusal reaches the caller as one.

*`backups`.* `NoOccurrenceIsLost`: an occurrence, which is a target and a sampled instant,
is run a second time only after a load of the claims has failed, and then the claim file has
a damaged or repeated line; as long as it has none nothing ran unclaimed; one tick never asks
for a window twice; and the cursor passes a window only once it is claimed, except for
the tick limit. `ArtifactsAreAccounted`: retention keeps the newest successes and
"ready" means a recorded artifact, with crashes inside every write. `OnlySuccessesRemoved`.

*`persistence`.* `ImplementsAuditLog`: numbers are dense and never reused, an acknowledged
event leaves only with a pruned prefix. `HistoryIsSound`: unless something failed the
history reconstructs between operations, a live writer holds the lock, a paging client
misses nothing, exports are complete. `StoresAreAtomic`: refinement of `AtomicStore`, the loss of a
rename by a power failure excepted. `StoreReadsWhatItWrites`: whatever is left on
disk, the next start accepts it and new writes are possible.

*`administration`.* `EffectsAreAuthorized`: when anything is changed, the history already holds
that the caller was allowed and that the operation started. `AnswersAreTrue`: a 4xx changed
nothing; a 200 is recorded, and changed everything unless its own body says what was left
undone, which only services' actions, prunings of backups and backup ticks do; a lost
terminal event, after a part of the effect too, says "look again".
`HandlersMatchCatalog`: fifty handlers do what the catalogue declares of them, and the
history accepts what they record. `PermitsBalance`: no path leaks a permit or gives one back twice.
`OnlyGenuineIsLetIn`: also one lifetime after the tenant dropped a key.
`RefreshesAreRationed`: good keys decide at once through an outage, and failures are spaced.
`EditorKeepsPolicies`: what is saved is valid; an editor nobody changed sends the policy
it was rendered from or, where it does not show its windows, nothing, because the save is
refused; a draft that differs from what was saved is flagged, unless it was edited under
its own request.

*`dashboard`.* `NothingOldComesBack`: neither part of a section, first or later read, is replaced
by an older one, nor does a later part come back older after it was blank. `PageIsConsistent`:
a section's later part is as new as the rest unless it is blank, the cursor ends the list, the
list has no gap unless loads overlapped, only a prepared shutdown is executed. `EverythingSettles`: every
section leaves "Loading", every button comes back, every request is answered, gates become
free, everyone who joined a refresh hears of its end.

## 4. Fairness

* `ServiceOrchestration`: weak fairness of each caller's step. Node runs
  every settled promise and expired timer, and adapters' commands have timeouts.
  Nothing is assumed of services becoming ready or of the wall clock.
* `ReconciliationScheduler!FairSpec`: weak fairness of the cycle's steps and of the
  clock. Restarting is *not* fair: the operator may never come.
* `ApplicationLifecycle`: weak fairness of reactions and timers; strong
  fairness of the end of a cycle and of an HTTP request, since reactions in between
  disable them again and again. Both are bounded by timeouts in the code. The
  listener may never get ready, and nobody need send a signal.
* `PowerHelperClient`: weak fairness of the next link of the call chain and of the
  call's timer. Nothing is assumed of a helper, which may hang for ever.
* `AdministrativeRequests`: weak fairness of each handler: a body is ended by the
  server's request timeout, commands and stores by their own.
* `AccessKeys`: the headers of a refresh arrive or the abort timer fires; a body ends,
  or the client library gives it up. The second is not the code's own doing
  (section 6, `RefreshIsBounded`), and says nothing of how long it takes.
* `Dashboard`: the server answers what it was asked, with success or failure, and the
  browser delivers the answer. Operators need not press anything.

The suites assume the same for a part while it is the one that moves. The other
specifications state safety only.

## 5. Proofs

TLAPS checks 36 listed theorems in eight modules, for every value of the constants.
They are about the specifications TLC runs, and 32 of them state properties of section
3, the very definitions the runs check; `MachinePowerTypeCorrect` has no run of its
own, `HelperAnswersStay` proves the safety half of `EveryCallSettles`, and
`OrchestrationsKeepTheirWord` and `HistoryReadsBack` what is left of `OrchestrationIsOrdered`
and `HistoryIsSound` when callers or operators are concurrent. Apart from the pure functions of the graph,
none of these properties is inductive alone; each component's module ends with the
invariant its theorems need (`IInv`; `RunsInv`, `AccessInv` and `ClientInv` in
`BackupRuns`, `AccessKeys` and `PowerHelperClient`; those of the orchestration, the
dashboard and the event history are in the modules of their proofs), as a conjunction of named
parts, and TLC has evaluated each as an invariant of the run's instances before it was
proved.
The proofs have a lemma for each part and each action (or group of actions), a
theorem that the invariant holds, and from it the theorems below.

**Assumptions.** Those named after the component, which say what the constants
are. Some need a word. `MachinePowerAssumption` asks that every end of an operating
period within the horizon is followed by a next start on the modelled calendar: the
code's plan always has one, because a policy repeats weekly. `RequestsAssumption` asks
that the operations are operations of the catalogue and that the requests are finitely many.
`AccessKeysAssumption` orders the code's times
(request timeout, cooldown, cache lifetime) and asks that the keys are finitely many.
`ClientAssumption` asks that a canonical timestamp without its fraction of a second is
one too. `DashboardAssumption` asks that no section is called "list" or "no read", the names of
reads, and that the operations are finitely many; `EditorAssumption` that the policies the
server may hold are lists of times, and that only a scheduled one has any. Of `Submitted`
`MachinePowerAssumption` asks only that each occurrence is due before it wakes, within the
instance's clock. Modules whose assumption mentions an instance's constants define it as
an operator, which the theorems take as a hypothesis (`RequestsAssumption => (Spec =>
...)`) and the `MC` modules `ASSUME` of the instances they check.

**`ReconciliationSchedulerProofs`** (`TypeCorrect`, `OccurrencesAttemptedAtMostOnce`,
`NoMinuteSkipped`, `ClaimsStayBounded`, `LiveOverridesSurvivePruning`,
`SchedulerImplementsLedger`). `IntervalInv`: a cycle works on the cursor it read, within
`(from, until]`. `CurrentInv`: the occurrence in execution is claimed and untried when the
orchestrator is called. `AttemptInv`: **what was attempted is still claimed or behind
the cursor**; claims may be pruned only because the cursor already shields what they
recorded. `CoverageInv`: a complete cycle has generated its whole interval. `RetentionInv`:
claims behind the cursor are gone before it moves. `PruneInv`: the override about to be
removed had expired when the pass began. The layers are types, safety, coverage,
retention. The refinement maps `through` to `cursor` and `deliveries` to `attempts`.

**`MachinePowerProofs`**, scheduler (`MachinePowerTypeCorrect`, `NoOccurrencePassedUnsettled`,
`RequestedOnceAheadOfCursor`, `WakeSetBeforePowerOff`, `NothingKnownRunsAtPowerOff`,
`DependentsStoppedFirst`). `TickInv`: a tick works on the cursor it read, and the
scheduler's execution on an occurrence due in it. `SettledInv`: what a complete tick
has dealt with is settled. `OnceInv`, the analogue of `AttemptInv`: ahead of the cursor what
was requested is still claimed, and two actors never carry the same occurrence past
its claim. `DueInv` and `AlarmInv`: as long as the clock goes forward only, an execution
relies on the alarm it set itself, **unless an edit or an overlapping occurrence took it**;
two occurrences of the policy never overlap, so they never take it from each other. `KnownInv`: **work that runs and did not start since an
execution looked is still to be read, was found, could not be read, or is still to be
stopped; once approved there is none**, which is what makes three readings at three stages
add up. The last two theorems are action properties, for any dependency relation.

**`MachinePowerProofs`**, helper (`HelperIsTakenAtItsWord`, `HelperAnswersStay`). `QueueInv`, `RunInv`: a
call is queued once and answered once, by the end of its own helper. `LockInv`: the file
lock keeps every other helper away from one that changes the alarm, also a helper left
over by a call that was given up. `AnswerInv`: **what a helper says, and what its caller is
told later, is in the clock as long as that helper is the last to have written**.

**`BackupProofs`**, scheduler (`NoBackupOccurrenceIsLost`). `MemoryInv`: while the claim file can
be read, the store's memory is a part of it; `PassInv`: between the cursor and its instant a
tick has claimed, cut off or still to claim every occurrence of a target that stayed
scheduled. `RecallInv`: **until a load fails, what was run is in the memory of a store that
has loaded, and in the file of one that has not**, so a crash forgets nothing. `SampledInv`:
what a tick has left are samples of its interval, two of which are never in one minute.
The sampling argument (a minute is hit by an instant of any search that
starts before it) is a lemma of its own.

**`BackupProofs`**, runs (`BackupArtifactsAreAccounted`, `OnlySuccessfulArtifactsRemoved`). A
pruning removes by the policy of its beginning while policies are edited: `PruningInv` keeps
what it has to remove out of the newest `floor` runs, the smallest number any policy so far
has kept (`FloorInv`), and `GateInv` says that the history does not grow meanwhile. That
a run outside the newest *n* stays outside when runs are added is proved of `Newest`.

**`DependencyGraphProofs`** (`GraphFunctionsCompute`). The algorithms are recursive functions
of the round they are in. What holds of every round is proved by induction, which here
is the least-number principle for a set (`InductionOnSet`): the rounds at which the
statement fails, were there any, would have a first. `Stabilizes`: a growing chain of subsets of
a finite set stops growing within as many rounds as the set has members, so the closure is
complete. `RoundIsOrdered`, `KahnBatchesAreOrdered`: a round of Kahn's algorithm emits what
depends on earlier rounds only. `AcyclicGraphIsEmitted`, `EmittedGraphIsAcyclic`: what is never
emitted always has an unemitted dependency, so that, in a finite graph, there is a cycle; and
conversely.

**`ServiceControlProofs`**, orchestration (`OrchestrationsAreOrdered`,
`OrchestrationsKeepTheirWord`). `SoundSteps`: **what the steps that are left owe to the graph**: a
service is stopped when its dependents are down or will have been stopped, nothing is
stopped once something was started, a service is started when its dependencies were seen
ready or will have been waited for. The three planners produce sound steps, by the orders
of `DependencyGraphProofs`, and every step leaves sound steps behind (`StepsAdvance`), also when
services crash or get ready meanwhile (`QuietChange`). `OrchestrationOK` is this for a
caller at any of its awaits, relative to a view of the runtime: a caller that is alone counts
on the real one, and one that is not counts on nothing but its own observations. Hence
the hypothesis `OneCaller` of the first theorem (its property is false without, which
`concurrent_callers` shows) and the smaller conclusion of the second, which has none.

**`ServiceControlProofs`**, lifecycle (`NoLoopIsLost`, `NothingBeginsAfterRequest`). What is owed by
promise reactions still queued: a loop that runs on after a request has its stop queued
(`StopInv`), a loop's end was acted upon or its observer is queued (`ObserverInv`), and
nothing is told to stop without a cause (`CauseInv`). Timers run when nothing is queued.

**`PersistenceProofs`**, stores (`FileStoresAreAtomic`, a refinement; `StoresReadWhatTheyWrite`). `WorkInv`: only the head
of the queue is past its read, and what it will publish and answer is what its operation
computes **from the document it will replace**. Each step maps to a step of `AtomicStore`
(a rename, an answer, a loss of a rename by a power failure) or to a stutter.
`StoresReadWhatTheyWrite`: whatever is on disk, renamed, half renamed or kept by a power
failure, is whole and is accepted by the reader (`DocumentInv`), because it was synchronised
before its rename and **every operation turns a document its reader accepts into another**:
a filter keeps an order, and a sort has a result to give. The latter is proved in
`ListsInOrder`: a finite set can be listed in any strict total order, by induction over its
members. `StoreAssumption` says of the constants that no operation and no answer is `None`. `QueueInv`: a caller waits in one place of the queue only.

**`PersistenceProofs`**, history (`HistoryIsAnAuditLog`, a refinement). The log's entries are the
records at or after the anchor, so a pruning happens **when the anchor is written**, and
the removals that follow, finished or not, change nothing. `OrderInv`: numbers
increase within a file and from one file to the next. `FloorInv`: nothing before the
anchor is left unless a removal is journalled; since nothing is appended while there is a
journal (`JobInv`), the number after the last record is the log's next one. `JobInv` also:
what a pruning has left to remove ends before the segment the anchor names.
`AckInv`: a line that is not synchronised is the last one and not acknowledged, so a loss
of power is the log's `LoseLast`.

`HistoryStaysSound` and `HistoryReadsBack` say of the same history that what is written can be read
back. `LinkInv`: the records are one chain through all files, and so are the manifests, **at
every step of a rotation or a retention**. `StartInv`: the chain starts at the anchor, or,
while a removal is under way, with the segment that will be first when it is done.
`SealedInv`, `PublishedInv`: while nothing failed, only the operation under way has
something unfinished, and there is a journal only if it has one. The three make
`Reconstructs` true between operations. `ExportInv`: an export has all its events, in order,
from the moment its candidates are written, because the numbers retained are an interval.
`ReaderInv`: **whatever follows the last record a client has, now or later, follows it in the
chain** (`Continues`), so a page that starts at the next number continues the pages before it;
only the loss of an event nobody acknowledged can break this. `LockInv`: a lock found stale stays
stale until it is removed. It needs the hypothesis that there is one operator at most, since
`WriterHoldsLock` is false with two (section 6); `HistoryReadsBack` has no hypothesis and
leaves out the lock. On sequences these need what a filter of an interval
returns, that flattening is appending and that a chain's numbers are dense, all by
induction over the index.

**`AdministrationProofs`**, keys (`OnlyGenuineAssertionsAreLetIn`, `KeysAreRequestedSparingly`). `KeyInv`: a key
in the cache or on its way was published when the refresh that brought it began, or
later; `AccessRequestInv`: whoever waits had nothing else against him; `RefreshInv`: the
cooldown of the last failure is remembered or over.

**`AdministrationProofs`**, requests (`EffectsAreAuthorizedFirst`, `AnswersTellTheTruth`,
`PermitsAlwaysBalance`, `HandlersHonourTheCatalog`), for the routes of all fifty operations.
`LeftToDo`: what a handler has left is the end of its route's list. From its position
follow `Audited` (what the history keeps, that the caller is granted the operation, that
nothing was changed), `Admitted` (which releases it owes), `ResultFits` (what it is about to
record is what the operation returned or raised, with an extent that operation can have) and `Catalogued` (its gate is held or still to come; a
started event the history took). `GateInv` and `AdmissionInv` count. `HandlerStepsInOrder`
finds each step in the list, `ErrorsAreNoSuccess` that no route's error mapping answers a
late error with a 4xx, `DescriptorsMatchRoutes` and `RecordsAreAccepted` compare catalogue,
routes and vocabulary.

**`DashboardProofs`**, page (`PageStaysConsistent`, `NothingOldReturns`), over `DashboardPage`.
`ReadsInv`: a load is the only one of its number and awaits the joinable list read or a
read of its own. `FreshInv`: **the newest load of a section brings nothing older than what
the section shows, and the list read nothing older than what an earlier one brought**,
which is what lets two sections join one read. `LaterInv`: a later read is sent after its
first one was answered, so what it brings is as new as that and, in the newest load of a
section, as what was shown there last. `EventsInv`: while nothing overlapped there
is one press at most, for what follows the list. `PowerInv`: a preparation in flight is
newer than what is prepared.

**`DashboardProofs`**, schedule editor (`EditorKeepsWhatItShows`). `RenderedInv`: an untouched
editor shows what it read of the policy it was rendered from, which for a scheduled service is
no windows, a draft that does not pass the check before a save; `SentInv`: a request in flight holds the
draft, unless the editor was changed under it; `FormInv`: a row that is off is empty.

**Only model-checked:**

* liveness (`HaltsOrCatchesUp`, `OrchestrationEnds`, `EveryCallSettles`, `ShutdownSettles`,
  `EverythingSettles`), which the prover does not cover;
* `WeeklySchedulesAreExact` and `PlansAreKept`: what searches and sorted lists over a week
  compute, which needs induction over their data;
* `HelperOutputsAreUnderstood`, a finite comparison TLC makes completely.

## 6. Where documents and code disagree

* **`restart_restores`.** A test title says a restart "restores only active
  dependents". With `api` running on `database` and `worker`, which needs `api`,
  stopped, a restart of `database` passes the active dependent `api` to
  `topologicalDependentsFirst`, which adds `worker`: the restart starts it.
* **`concurrent_callers`.** FR-021 asks that stops process dependents first, scheduled
  operations too. The scheduler and an administrator share no lock: a stop planned
  while a dependent was down proceeds after the other caller has started it. With
  one caller the property holds (`OrchestrationsAreOrdered`).
* **`claim_replay`.** The glossary calls a shutdown occurrence's claim permanent. The
  tick prunes it once the cursor has passed, and an administrator can replay the
  occurrence until its wake instant. Ahead of the cursor the promise holds
  (`OnceAheadOfCursor`, proved in section 5).
* **`claim_rerun`.** The backup runbooks say that claims prevent duplicate execution after
  a restart, and that corrupt claim files "fail closed". `load()` marks the store as
  loaded before it reads, so a load that fails, because a read of the sound file failed
  once or because of a bad line, rejects one call, and the next one goes on with the
  claims met so far: in the run none, so the occurrence of a claim on file is claimed
  again and run again. An append cut short has the same effect, through the claim that is
  glued to its fragment. As long as no load fails the promise holds
  (`RerunNeedsFailedLoad`, in `NoOccurrenceIsLost`).

Twenty-four more are stated as definitions the code does not satisfy. A module that
extends the run's and restricts the definition to the part in brackets (for instance
`part = "helper" => Client!OneHelperAtATime` in an extension of `MCServiceControl`)
lets TLC show a behaviour that violates it.

| Definition | What the text says | What the code does |
| --- | --- | --- |
| `AccessKeys!RefreshIsBounded` (`refreshes`) | `docs/operations/atlas-manager-identity-readiness.md:19`: checks are "bounded by a five-second request timeout" | the timer is cleared when the headers are there; a slow body holds the refresh and everyone who joins it |
| `AdministrativeRequests!EveryLostTerminalIsRechecked` (`catalogue`) | `docs/security-model.md:14`: a terminal audit failure after an effect "yields a state-recheck result" | only services, wake-alarm and shutdown routes; the others answer 503 or 500 |
| `AdministrativeRequests!SingleTerminalEvent` (`catalogue`) | `docs/glossary.md:110`: "The single `succeeded`, `rejected`, or `failed` event" | `runBackupSchedulerTick` records `failed` after a `succeeded` whose call failed although it was kept |
| `AdministrativeRequests!MissingExportIsNotFound` (`catalogue`) | the route's study page promises 404 | the runner's list of errors lacks `EventHistoryExportNotFoundError`: 503 |
| `AdministrativeRequests!UnknownServiceIsNotFound` (`catalogue`) | the route's study page: `404 registered_service_not_found` | the facade throws a plain `Error`: 500 |
| `AdministrativeRequests!FailedOrchestrationIsUnavailable` (`catalogue`) | `docs/study/study-routes/post-admin-services-service-id-actions-start.md:50`: a blocked dependency, an invalid state or a readiness timeout is answered 503 (the pages of stop and restart say 200) | `execute()` returns `successful: false`, the runner records `succeeded` and the route answers 200 |
| `BackupScheduler!WindowRunsOnce` (`scheduler`) | `docs/operations/atlas-manager-backup-scheduler.md:5`: claims "prevent duplicate execution after restart or retry" | a claim names the sampled instant; a cursor left inside a window's minute makes the next tick sample the rest of it, and the window is run twice |
| `MachinePowerScheduler!PowersOffPrepared` (`two operations`) | `docs/glossary.md:908`: "Scheduling the occurrence's next wake alarm before its simulated shutdown", without which there is none | no lock is shared from alarm to power-off: an overlapping occurrence of an administrator replaces the alarm, or its failing helper clears it |
| `EventHistory!WriterHoldsLock` (`history` with two `Operators`) | `docs/adr/024-*.md:13`: "One atomic filesystem lock serializes writers and maintenance" | a recovery removes whatever lock is at the path, also one acquired after it looked |
| `FileStores!ClaimsAreDurable` (`stores`) | `docs/scheduling.md:39`: "a durable claim" | the directory is not synced; a power failure can undo the rename |
| `FileStores!FailedPublicationLeavesNoFile` (`stores`) | comment at `file-backup-target-policy-store.ts:108` | the temporary file stays, and blocks every later save |
| `ServiceIntervals!OfflineConflictIsReported` (`intervals`) | `docs/glossary.md:1015`: "produces a service-specific shutdown blocker" | `manual` is answered `not_required` before the override is looked at, so keep-available does not hold the machine |
| `PowerHelperClient!OneHelperAtATime` (`helper`) | `docs/adr/002-*.md:90`: "run sequentially" | a call that times out is answered before its helper is gone |
| `Dashboard!ResultIsReread` (`sections`, 2 sections, 3 loads each) | `docs/dashboard.md:117`: "The result is reread after the operation" | the reread may join a read sent before the operation |
| `Dashboard!ButtonsDisabledInFlight` (`sections`) | `docs/dashboard.md:157`: "disabled while an operation is in flight" | a poll renders a fresh card with enabled buttons |
| `Dashboard!HealthIsCurrent` (`sections`) | `docs/dashboard.md:11`: derived "from every section's current load state" | only `refresh()` writes it |
| `Dashboard!ReadySectionsAreWhole` (`sections`) | comment at `src/dashboard/api-client.ts:3`: payloads are "never silently degraded into an empty authoritative state" | a later read that fails is rendered as no resources, an unknown service or no runs, with status ready (`main.ts:753`, `785-806`, `871`) |
| `Dashboard!ContentIsKept` (`sections`) | comment at `src/dashboard/section-state.ts:5`: a section "that already rendered content keeps it and reports "stale" rather than blanking" | only a failing first read is reported as stale; a failing later one replaces its part by a blank |
| `DashboardEvents!ShownEventsAreContiguous` (`events`) | `docs/dashboard.md:136`: "appends the next page" | it appends to whatever the list is when the page arrives |
| `ScheduleEditor!EditorShowsSchedule` (`edits`) | `docs/dashboard.md:138`: "the reusable weekly schedule editor", of a policy answered as in `tests/cli/service-schedule-mutations.test.ts:137` | the service editor reads `policy.windows` where the answer has `policy.schedule.windows`: it shows every scheduled service without windows |
| `ScheduleEditor!SaveKeepsOtherDays` (`edits`) | the same | setting one day in it and saving drops the others |
| `ScheduleEditor!UnsavedEditsAreFlagged` (`edits`) | `docs/reviews/operator-experience-slice4-gap-analysis.md:28`: "Any field change sets a flag" | an edit made while a save is in flight is unflagged by its answer |
| `ScheduleEditor!ClearDayClearsOneDay` (`edits`) | a test title: "removes only the given weekday's window" | the other rows are rewritten from the list, which lags behind the fields |
| `ScheduleEditor!EnabledDaysAreSaved` (`edits`) | `docs/dashboard.md:141`: an explicit checkbox instead of "empty inputs mean disabled" | an enabled row with an empty time is left out and not reported |

Noticed while modelling, with no run of their own:

* After the clock is set back, an administrator may execute an earlier occurrence
  while the scheduler is between its alarm and its power-off, and replaces the alarm:
  the machine wakes at the other occurrence's time (`rewound` in `WakeBeforePowerOff`).
  Without a step of the clock the same needs an occurrence of the administrator's own
  (`PowersOffPrepared`).
* A start, stop or restart that stops at a failed step is recorded as succeeded, and so are
  a pruning that was refused and a backup tick that was cut short: the history does not
  tell them from complete ones.
* A scheduled stop closes over dependents, including ones with an "always" policy or
  a keep-available override, and no transition starts those again.
* Cancelling an override, or its expiry, reconciles nothing until the service's next
  schedule transition.
* A restart may start a dependent while another of its dependencies is stopped.
* After a crash past the claim, a machine shutdown is prepared again, services
  stopped, and then found to be a duplicate: services stay down.
* Backup: one unreadable cursor makes the next tick start a new one at the current
  instant; a candidate file left by a crash blocks every later cursor write; a lock
  directory left by a crash makes the history busy for good; `removeOwnCandidate`
  compares with `/candidate` and never removes anything, which blocks retention;
  a published success whose record fails is recorded as failed, which blocks
  retention too; `maxSuccessfulAgeDays` has no effect, since what is not protected is
  removed at any age; a refused run spends its claim.

## 7. Not modelled

* Time zones and daylight saving: the allowed zone has had no clock changes since
  2019, so a week is a cycle of local minutes.
* What formatting, parsing and cryptography compute (JSON, base64, signatures, hash
  chains): each is one step that accepts or refuses, or an identity.
* Two processes on one state file: the deployment runs one.
* The single-file event history of version one and its migration.
* The content of copied trees and manifests: a copy succeeds or fails.
* The privilege checks of the helper binary and its installation.
* Static files, health endpoints, navigation, rendering, the timeline and the backup forms.
* CLI, configuration, diagnostics, status, resource and log readers, which keep no
  state another component depends on; the deployment tools, which run outside the process.

`PROJECT.json` has the reason for each component.

## 8. Plan

Done: every component with state of its own is modelled and checked, and its main
safety properties are proved. Left, with the induction of `DependencyGraphProofs` as the tool:
the validators and searches of **`WeeklySchedules`** and **`MachinePlans`**, for weeks of any length.

A component's theorems stay in one module; components an `MC` module checks side by
side may share one, as the scheduler and the helper client, the orchestration
and the lifecycle, the two of the backups, the two kinds of files and the parts of the dashboard do.
