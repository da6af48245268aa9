# A TLA+ model of iold

`iold` deploys one local vLLM runtime at a time on a GPU machine. It is a
command-line tool without a daemon: every invocation is a process that takes a
file lock, repairs what an earlier, interrupted invocation left behind, does one
lifecycle operation against a SQLite database, the process table and a few
directories, and exits. What makes it hard is exactly that: the CLI can be killed
between any two system calls, the runtime outlives it, and the next invocation
has only the database and the operating system to find out what happened.

This directory holds a specification of that lifecycle and of the parts around
it (schema migrations, the log pipe, planning, ports and health, retries against
the gateway), the TLC instances that check them, abstract specifications that they
implement, and theorems that the TLA+ proof system checks. Section 1 is the
inventory of the program, 2 the modules and how they correspond to the code, 3 the
properties, 4 the runs, 5 the disagreements found, 6 the proofs, 7 the
abstractions, 8 what is not modelled and the plan.

## 1. The system

| part | state it keeps | operations | interacts with |
|---|---|---|---|
| State machine, `internal/state/machine.go` | none | `CanTransition`, `checkTransition`, the edge table | the store calls it before every phase change |
| Store, `internal/state/store.go` | table `deployments` (SQLite) | `Open`/`migrate`, `Create`, `Get`, `List`, `Transition`, `SetRuntimeIntent`, `SetRuntime`, `Delete` | called by every command; each write is a compare-and-set statement |
| Operation lock, `internal/operationlock/lock.go` | a flock on one file | `Acquire` (blocks), `TryAcquire` (status), `Close` | taken around every lifecycle command; inherited by a forked child until its exec |
| Supervisor, `internal/supervisor/supervisor.go`, `identity_linux.go` | none of its own; the process table | `Start`, `Alive`, `Owned`, `Reconcile`, `FindByCommand`, `Stop` | deploy, destroy and recovery; signals process groups |
| Log proxy, `internal/supervisor/log_proxy.go`, `internal/redact` | a log file per deployment | a detached helper that copies and redacts lines | started by `Start` before the runtime |
| Recovery, `recoverInterruptedDeployments` in `internal/cli/cli.go` | none | lists rows, adopts or crashes interrupted ones | first thing every locked command does |
| destroy, `internal/cli/cli.go` | none | `destroyOne` for a target, `--all`, `--purge` | store, supervisor, files |
| deploy, `internal/cli/deploy.go` | api-key file, model cache with marker `.iold-owner` | `runDeploy`, `--replace`, `executeDeploy` and its `fail` | store, supervisor, files, destroy |
| status, logs | none | report | store; status takes the lock if it is free |
| Preflight, `internal/preflight`, `internal/supervisor/ports.go` | none; the host and its ports | `Run`, `AllocatePort`, `PortFree` | deploy, before it replaces or creates anything |
| Doctor, `internal/doctor` | none | `Run` | the user; its rules repeat the preflight's |
| Planner, `internal/planner`, `internal/cli/plan.go` | none | `EstimateModel`, `Assess`, `SuggestQuantized`, `runPlan` | deploy's gate, plan; reads the hub |
| Hugging Face client, `internal/hf`; catalog | none; a repository that others push to | `GetModel`, `GetConfigAtRevision`, `Search` | planner, plan, deploy |
| Waits of deploy, `waitHealthy`, `checkReadiness` | none | two polling loops over HTTP | whoever listens on the port |
| Retry, `internal/retry` | none | `Do`, `Delay` | not called by the commands yet |
| Gateway contract and fakes, `internal/fakes` | registrations | register, unregister | the retry policy, in the failure-path tests |
| Installer | | download script | outside the program |

Hard behaviours, each with its line under `hazards` in `PROJECT.json`: two CLIs
racing for the lock; a kill between fork and the statement that records the
runtime; the lock's descriptor alive in a child that has not reached exec; a
recorded pid that is a zombie, or that belongs to somebody else by now; workers
that outlive the leader of their group; an older process with the same command
line; `--replace` failing half-way; tombstones; the model cache being created,
claimed and removed in several steps; the log proxy running at a time of its own;
destroy repeated after every partial failure. Around the lifecycle: processes that
open the database without the lock; who still holds which end of the log pipe when
one of them dies; a port that is checked, then released, then bound, and a health
check that anybody on that port may answer; a repository that moves between two
requests; roundings in different units on the two sides of one decision; a request
that is served after its sender has given it up.

What makes the parts correct: the store never refuses what a command under the
lock asks of it; at most one deployment is active and one runtime exists; a
record never disappears before its processes do; a runtime can always be found
again; destroy leaves no secret and no cache and never removes what is not
iold's; signals reach only the runtime; every command ends, the lock is never
lost, and a destroy that began completes when it is repeated. The schema is built
once and in order by whoever gets there; no line of a log is lost or shown with its
secret; a deployment is reported ready only when its own runtime answered; what is
admitted has room, as the revision, the context and the GPU that were looked at are
the ones that are used; a retry neither gives up early nor repeats an effect.

## 2. Modules

```
Universe   Phases
     \     /
     Store   Processes   Files
          \      |      /
             Command                    pc, locals and the lock of each CLI
          /      |      \
   Recovery   Destroy   Deploy          one action per system call or statement
          \      |      /
            Lifecycle                   faults, environment, Next, Spec
                 |
        LifecycleProperties --- INSTANCE Deployments (the promise)
          /             \
   MCLifecycle      LifecycleProofs --- RuntimeProofs

Migrations --- INSTANCE Schema      (MCMigrations)    opening the database
     \--- MigrationsProofs
LogPipe                             (LogPipe)         the log proxy
     \--- LogPipeProofs
Servers --- Serving                 (MCServing)       port, launch, health, readiness
              \--- ServingProofs
Planner --- Preflight --- Planning  (MCPlanning)      plan, deploy's gate, doctor
                     \       \--- PlanningProofs
                      \--- Suggest  (MCSuggest)       variants of a model that is too big
                              \--- SuggestProofs
Gateway --- Registration            (MCRegistration)  retry.Do against the gateway
Backoff ---/      \--- RegistrationProofs             and the time it takes
```

The modules of the second group have no variable in common with the lifecycle or
with each other: what they hand to it (a verdict, a port, a health answer, the
moment a log file appears) is a free choice there, so the lifecycle's properties
hold whatever they decide, and they are checked on their own against the faults that
matter to them.

| module | models | state |
|---|---|---|
| `Phases` | `machine.go`: `transitions`, `CanTransition`, `checkTransition` | |
| `Store` | `store.go`: one operator per statement, `...OK` is its WHERE clause and legality check, the same name its write | `db` |
| `Processes` | what the supervisor observes and signals; processes starting, forking, exiting and being reaped | `os`, `clock` |
| `Files` | api keys, logs, caches and markers, log proxies that have not opened their file | `keys`, `logs`, `proxies`, `cache` |
| `Command` | the CLI process: labels, local variables, `Return`, the error path of each label, invoking, the lock | `lock`, `pc`, `job`, `deploys`, `faults` |
| `Recovery` | `recoverInterruptedDeployments`, `status` | |
| `Destroy` | `runDestroy`, `destroyOne`, `supervisor.Stop` | |
| `Deploy` | `runDeploy`, `executeDeploy`, `prepareModelCache`, `supervisor.Start` | |
| `Lifecycle` | everything together, with faults and environment | |
| `Deployments` | the abstract specification: stage, running, littered | `stage`, `running`, `littered` |
| `LifecycleProperties` | invariants, action properties, refinement, fairness, liveness | |
| `LifecycleProofs` | theorems: types, exclusion, the copy in memory and the table | |
| `RuntimeProofs` | theorems: other people's data and processes; runtimes, what is left on disk, the refinement of `Deployments` | |
| `MCLifecycle` | symmetry and fault windows for TLC | |
| `Migrations` | `state.Open`, `migrate`, `Close` in several processes of several binaries; SQLite's write lock, rollback and busy timeout | `db`, `pending`, `writer`, `pc`, `next` |
| `MigrationsProofs` | theorems | |
| `Schema` | what `Migrations` promises: one migration at a time, in order, never back | `applied`, `version` |
| `LogPipe` | `startLogProxy`, the pipe part of `supervisor.Start`, `runLogProxy`, `redact.Copy` | `start`, `proxy`, `writers`, `pipe`, `held`, `log`, `linked` |
| `LogPipeProofs` | theorems | |
| `Servers` | the vLLM API as `fakes/vllm.go` serves it: health, models, inference, the key | |
| `Serving` | one deploy's port choice, replacement, launch, `waitHealthy`, `checkReadiness`; the listeners of the host | `scene`, `listener`, `pc`, `port`, `runtime`, `elapsed`, `phase`, `inferred`, ... |
| `ServingProofs` | theorems | |
| `Planner` | `EstimateModel`, `Assess`, `requiredVRAMMiB`, `requiredDiskGiB`, `minComputeForQuantization` as integer operators with int64 wrap-around | |
| `Preflight` | the checks of `preflight.Run` and of `doctor.Run` as sets of failures of a host | |
| `Planning` | `runPlan` and `resolveSpec` request by request, against a repository that is pushed to | `scene`, `repo`, `host`, `cmd`, `pc`, `got`, `cfg`, `planned`, `deployed` |
| `PlanningProofs` | theorems | |
| `Suggest` | `SuggestQuantized`: searches, ranking, fetches | `downloads`, `answer`, `found`, `ranked`, `suggestions`, `passed` |
| `SuggestProofs` | theorems | |
| `Gateway` | the registration handlers of `fakes/gateway.go` for one deployment | `opts`, `registeredKey`, `registerCalls` |
| `Registration` | `retry.Do` around `registerOnce` and the unregistration, over a network | `calls`, `policy`, `step`, `attempt`, `cancelled`, `result`, `requests`, `answers`, `elapsed` |
| `Backoff` | `Policy.Delay` and `jittered` as integer operators | |
| `RegistrationProofs` | theorems | |
| `MCMigrations`, ... | constants of the instances | |

Operators whose comment begins with "Mutant" are not part of the specification:
each is a plausible bug of the definition that follows it, kept to show that a
property would notice it.

A CLI is a program counter and a record of locals (`job`). A label is the point
before one system call, one SQL statement or one decision on values already read;
the action of that label performs it and moves on, so every interleaving and
every kill between two calls is a behaviour. `job.list` is the copy of the rows
that the code holds in memory (`store.List` or `store.Get`): what a command does
depends on that copy, and only the store's compare-and-set sees the table.
Error returns are `Rejected`, which routes by label the way the code does: in
`destroyOne` to the next target (or, under `--replace`, out of the command), in
`executeDeploy` to `fail`, elsewhere out of the command.

Faults (`Lifecycle`) are counted by `MaxFaults` and switched by `FaultKinds`:
a kill at any label, an I/O error of any statement, of any file operation, of a
signal, of a `/proc` read. A killed CLI leaves its flock to a child between fork
and exec (`LockLeft`).

The environment: a child reaches exec or fails to; a runtime exits, forks workers
(`Workers`: none, with another command line, or with their leader's), downloads
into its cache; init or the CLI reaps zombies; strangers take free pids, and may
have been running the same command since before iold (`Strangers`).

## 3. Properties

Invariants: `TypeOK`; `MutualExclusion` (only the holder of the lock is inside an
operation); `StoreNeverRefuses` (each insert, compare-and-set and delete that
reaches the store is legal and finds the row it expects, so no user ever sees
ErrConflict, ErrIllegalTransition or ErrDuplicate); `OneActive`;
`NothingDroppedWhileRunning`, and with the two `OneRuntime`; `RuntimeAccounted` (the
leader of a runtime is recorded, or is the one process a STARTING intent will match,
or is in the hands of the command that started it); `NoResidue` (key and cache files
only belong to active records); `RecoverySettles` (when a command starts to act, an
interrupted deployment is settled, or past its launch with its process on record).
Action properties: `AlienDataKept`, `StrangersUnharmed`. Refinement:
`ImplementsDeployments`. Liveness: `LockComesBack`, `DestroyCompletes`.

`Deployments` says what a user may rely on without mentioning locks, rows or
pids: a deployment is created only when no other is active, a runtime starts only
while its deployment is being set up, a deployment is retired only when nothing
runs and nothing is left, and cleaning up happens only when its runtime is gone.
The mapping is `StageOf` of the row, the ids of processes started by a deployment,
and the ids that own a key or a claimed cache.

Around the lifecycle:

- `Migrations`: `Implements` (the refinement of `Schema`), `StoresComplete` (what a
  store's statements name exists, also after another binary migrated further),
  `FailureIsLostRace`, `RepeatedOpenSucceeds` (no order of processes starves one).
- `LogPipe`: `LogFaithful` (while the proxy reads, file, hands and pipe together are
  exactly what was written, redacted, in order; after a failure the file is a beginning
  of it, at the end all of it), `HeardUnlessFailed` (no signal takes the reader from a
  living writer), `ProxyEnds`, `WriterUnblocked`.
- `Serving`: `PortIsOwn`, `FreePortIsFound`, `ServedByOwnRuntime`, `DeployEnds`.
- `Planning`: `DeploysWhatItEstimated` (one revision, and the context that was
  estimated), `PlanPredictsDeploy`, `GateImpliesVRAMCheck`, `AdmittedHasRoom`,
  `DoctorAgreesWithPreflight`.
- `Suggest`: `SuggestionsHelp` (they differ and fit), `MostDownloadedFirst`.
- `Registration`: `ResultsTrue` (nil means registered, and a call never takes its own
  earlier attempt for a conflict), `ExhaustedIsEarned`, `CancelStopsAttempts`,
  `DoReturns`, `TimeBounded`.

The modules of this second group check their types as a conjunct of one of these
(`StoresComplete`, `LogFaithful`, `PortIsOwn`, ...), by the name `TypeOK`.

## 4. Runs

The lifecycle, with `tlc -config X.cfg MCLifecycle`; each takes one to three minutes.

| run | instance | question |
|---|---|---|
| `Concurrent` | 2 CLIs, 2 ids, 2 pids, one cache with foreign data, 2 creations, 1 kill/store/disk fault | do two invocations of any command, one of which may be killed or fail anywhere, keep every safety property and the refinement? can deploys and replaces of different deployments both win? |
| `Supervision` | 1 CLI, 1 id, 2 pids, workers, pid reuse, 2 signal or probe failures | can a destroy succeed with a process left over? |
| `Adoption` | 1 CLI, 1 id, 3 pids, an older process with the same command, pid reuse, 2 kills | does recovery adopt its own runtime and only that? |
| `Progress` | 2 CLIs, 1 id, 1 pid, 1 kill/store/disk fault outside the cache windows; fairness | does every command end, the lock come back and a repeated destroy complete? |

The parts around it, each in less than a minute:

| run | module | instance | question |
|---|---|---|---|
| `Upgrade` | `MCMigrations` | 3 processes, binaries with 3, 3 and 2 migrations, kills and busy timeouts anywhere; fairness | is the schema built in order, and does everybody get a store in the end? |
| `Logging` | `LogPipe` | a runtime with a worker and one process outside its group, 3 lines (plain, secret, endless), a pipe of 2; interrupts, kills, an unopenable log, a full disk; fairness | is a line ever lost or shown, when does the proxy end, and is the runtime blocked? |
| `Serving` | `MCServing` | a window of 3 ports. `scan`: the old deployment on the last, squatters, 2 visits. `serve`: slow, too slow, failing, malformed and dying runtimes, 4 kinds of other servers, 2 visits; fairness | is the chosen port free and a free port found? who made the deployment ready, and does the command end? |
| `Planning` | `MCPlanning` | repositories that are pushed to between two requests, plan and deploy; every size of model, GPU and disk around every rounding; hosts at and one off each threshold | do the two requests, plan and deploy, the two units, doctor and preflight agree? |
| `Suggesting` | `MCSuggest` | 6 repositories, 2 searches of 2 answers, 2 fetches, counters that move | are the best variants offered, once each? |
| `Registering` | `MCRegistration` | registrations and unregistrations, policies of 1 to 4 attempts, 2 network faults, 1 unavailability, cancellation; fairness | does a result mean what it says, and is any attempt wasted, late or unbounded? |

Three modules (`Planning`, `Registration`, `Serving`) take their instances as
`Scenarios`: a variable fixed by `Init` picks one, so that one run covers several
questions with small bounds each instead of one large product. `OneRuntime` has no run
of its own: it follows from `OneActive` and `NothingDroppedWhileRunning` (section 6).

Bounds. `MaxDeploys` bounds creations: two are enough for a deployment and its
successor, of the same id with a tombstone between them, or of another id. `MaxExtras`
bounds workers and strangers by the number of process starts: enough for a
worker of a runtime and for one pid reuse. `MaxFaults` is 1 or 2: one fault
interrupts a command, the second interrupts the command that repairs it. One id
suffices where ids do not compete, as a second deployment of the same id is a new
deployment with a key of its own; two where they do. Two CLIs suffice for the
lock: the others only wait, and the theorem in section 6 is for any number.
CLIs and pids are symmetric in `Concurrent`: no action orders them, and its properties
are of states and steps.
`Workers` is "none" in the runs that need not have workers, because of the first
entry of section 5: with a worker that shows another command line and a kill
before the runtime is recorded, the safety properties really fail. In
`Supervision` the injected faults are failures of signals and probes, not kills,
for the same reason.

Bounds of the second group. `Planner` takes its units as constants: with 4 bytes to a
MiB and 2 MiB to a GiB, `Planning` meets every residue of a byte count in a MiB, and of
a disk in a GiB, on both sides of every threshold; `Half` is far above any sum of an
instance except in `ContextOverflow`, where it stands for 2^63. Two revisions suffice
for a repository that moves, as a command makes two requests; two commands to compare
plan and deploy. Three processes suffice for the schema: one that migrates, one that
loses the race to it and an older binary. A pipe of two lines can be full, hold a line
while another is in the proxy's hands, and be empty; three lines fill it and overtake.
Two network faults let one request be late and another be doubled; policies of 1 to 4
attempts have a first, a last and a middle attempt. Two visits to the ports are one that
takes the port and one that follows the first's departure. Polls count time in the
waits: a request lasts 0 to `Slow` polls, and the timeouts are longer and shorter than
the runtime's start.

Deadlock is not checked where the system may stop: a command that has returned
(`Serving`, `Registration`, `Planning`, `Suggest`) and a log whose writers are
gone (`LogPipe`). In `Migrations` it is.

The lifecycle's runs check deadlock freedom too: a CLI in a command always has a next step,
or waits for the lock or for a child's exec that will come. A lock that a child
kept forever would violate `LockComesBack`. That every command ends follows from it:
whoever is inside a command holds the lock (`MutualExclusion`).

Fairness. Weak fairness of each CLI's own steps (the scheduler runs it; every
wait in the code has a deadline, so a runtime need not cooperate), of a child on
its way to exec, of reaping and of log proxies. Weak fairness of a CLI is of its
commands, never of its invocation, and no runtime is ever assumed to exit or to
obey SIGTERM. `Progress` adds an operator who repeats `iold destroy --all` (strong
fairness of that invocation by some CLI, since others may be running): the code
promises completion only to the next destroy.

In the second group only the program's own steps are fair: a process inside `Open`, and
the end of a command that has its store (`Migrations`; whether a command is run or killed
is not); the CLI in `Start` and the proxy (`LogPipe`; the runtime owes neither a line nor
an exit); the deploy (`Serving`; nothing is owed by any server); `Do` and the gateway's
serving of what reaches it (`Registration`). `RepeatedOpenSucceeds` states its own
premises: the command is run again and again, and the kills end.

## 5. Where code and words disagree

In each, TLC finds a property violated that is taken from the quoted comment, test or
document. `OrphanedRuntime` and `WedgedDestroy` are runs of `PROJECT.json`. Of
the others, those that need an instance of their own have it in a .cfg of the name given
here, for the module that the run of that part checks; the rest ("in `Upgrade`") are found
with the constants of a passing run and the property as its only INVARIANT.

| cfg | property | what happens |
|---|---|---|
| `OrphanedRuntime` | `NothingDroppedWhileRunning` | A deploy is killed after the fork and before `SetRuntime`; the leader dies, a worker stays. Recovery finds no candidate for the intent and marks the row CRASHED with pid 0; destroy skips the stop for pid 0 and retires the record while the worker holds the GPU. `store.go:309` promises that history is not dropped while resources can exist. |
| `FailedStop` | `NothingDroppedWhileRunning` | `SetRuntime` fails after the start, and so does the stop that `fail` then tries: `deploy.go:388` prints a warning and marks the row FAILED with pid 0. destroy skips the stop for pid 0 and retires the record while the runtime runs. `deploy.go:383` says that every failure stops any process this run started. No test lets both fail; the proof of `NothingIsDropped` did not go through without excluding it. |
| `WedgedDestroy` | `DestroyCompletes` | A kill after the cache directory was made and before its marker holds the key, or inside `RemoveAll` after the marker went: `modelCacheOwnedBy` refuses that directory in every later destroy. `recovery_test.go:70` says the next destroy completes. |
| in `Adoption` | `InterruptedIsCrashed` | A deploy killed in HEALTHY or REGISTERING keeps that phase: recovery only touches rows before HEALTHY when the runtime lives. `machine.go:52` says any interrupted active deployment ends in CRASHED. |
| `LateLog` | `LogsGone` | The detached log proxy opens its file with O_CREATE when it is scheduled, possibly after destroy removed the log. |
| in `Upgrade` | `OpenSucceeds` | `migrate` reads the version before its first transaction: of two processes that open a new database at once, the second's CREATE TABLE fails and its Open returns the error, where `store.go:66` says that pending migrations are applied. The next Open works (`FailureIsLostRace`). |
| in `Logging` | `PersistsUntilEof` | A line of more than 1 MiB ends `redact.Copy` with an error, and the proxy with it; `log_proxy.go:20` says that it persists until EOF. |
| in `Registering` | `UnregisteredIsAbsent` | A register request given up by its timeout is served after the unregistration was answered with 204, which the contract calls "Unregistered or already absent". |
| in `Planning` | `RefusalLeadsToVariants` | deploy refuses by the first GPU and asks to run plan for variants; plan goes by the largest and finds that the model fits. |
| in `Planning` | `DoctorRefusalIsTrue` | The doctor says that a host below its floor cannot run deployments; deploy admits a small dense model on it. |
| `ContextOverflow` | `Conservative` | For a model whose config names no longest context, a huge `--context` wraps the int64 product: plan says FITS, where the planner's header says conservative. |
| `WrongArchitecture` | `SuggestedForThisGPU` | Variants are suggested by VRAM alone, and NVFP4 ones are refused by deploy's check of the compute capability; D-017 says that the planner inspects the architecture. |
| `ReleasedPort` | `ReleasedPortIsAvailable` | The port recorded by a dead deployment is taken for free without a look, while another program holds it. The old deployment is destroyed and the new one cannot bind. |
| `ForeignHealth` | `HealthyWhileOurs` | The runtime dies between the look at its process and the request; a foreign server on its port answers 200 and the phase becomes HEALTHY. |
| `OpenServer` | `KeyIsRequired` | A server of the same model name without a key passes the readiness checks, and the summary says that requests without the key are rejected. |
| `ReusedGroup` | `StrangersUnharmed` | The identity is verified before SIGTERM and not again before SIGKILL; a group that emptied and whose number was taken by a stranger during the grace period is killed. |

The passing runs exclude exactly these cases and nothing more: no workers beside kills,
and no store failure beside a failure to stop; no fault in the three cache windows in
`Progress` (`OutsideCacheWindows`); strangers that do not lead groups (`StrangersLead =
FALSE`) where `StrangersUnharmed` is checked; no keyless server of the same name in
`Serving`, and no squatter on the port that the old deployment recorded; a first GPU
that is the largest in `PlanPredictsDeploy`; sums and products below `Half` in
`Planning` and `Suggest`. `HeardUnlessFailed` and `LogFaithful` say what still holds after a proxy that failed,
and the properties of `Registration` speak of the time before an unregistration has
begun.

## 6. Proofs

No theorem bounds anything: they are about any sets of CLIs, ids, pids, ports, keys,
revisions and every value of the numbers, from the named assumptions of the modules (no id
is `NoId`, no pid is `NoPid`, CLIs are not pids, `Nobody` is neither, the bounds are
naturals, ...). A theorem that needs more says so as a hypothesis, which the passing runs'
constants satisfy and which section 5 or the text here shows to be needed.

### The lifecycle

| theorem | states | hypothesis |
|---|---|---|
| `TypeCorrect` | `TypeOK` | |
| `Exclusion` | `MutualExclusion` | |
| `NoRefusal` | `StoreNeverRefuses` | |
| `OneIsActive` | `OneActive` | |
| `RecoveryIsComplete` | `RecoverySettles` | |
| `ForeignDataIsKept` | `AlienDataKept` | |
| `StrangersAreUnharmed` | `StrangersUnharmed` | `StrangersLead = FALSE` |
| `RuntimesAreAccounted` | `RuntimeAccounted` | `Traceable` |
| `NothingIsDropped` | `NothingDroppedWhileRunning` | `Traceable` |
| `OneRuntimeAtATime` | `OneRuntime` | `Traceable` |
| `NothingIsLeft` | `NoResidue` | `Traceable` |
| `PromiseKept` | `ImplementsDeployments` | `Traceable` |

The invariants build on each other; each is inductive only together with those before it.

- `TypeInv` (`LifecycleProofs`). `TypeOK` is not inductive: a command reads the row of, and
  writes files for, its current deployment, and a kill hands the lock to the child in its
  locals. `CurrentKnown` adds that at the labels that work on one deployment there is one,
  at `exec` there is a child, and a deploy has a target.
- `MutualExclusion`. Every step of a CLI that is inside an operation either ends its
  command (`Return`) or moves it on (`Moves`). Since such a CLI holds the lock, nobody else
  is inside: a move keeps the lock, a return frees it and goes idle. The delicate cases are
  those of the flock: a kill passes it to a child or frees it, exec and a failed exec free
  it only if the child holds it, and then no CLI is inside because a child is not a CLI.
- `AgreeInv` adds `Agreement`: at every label, the copy of the rows in the memory of the
  command that is inside agrees with the table, on exactly what the statements to come
  compare, and says how far the work of recovery, destroy and deploy has come. Since
  only the holder of the lock writes, another command's write cannot falsify it. From it
  follow that no statement is refused, that an insert meets no other active row, and that
  recovery has settled everything when a command starts to act.
- `AlienUnmarked` (`RuntimeProofs`): foreign data lies in a cache without our marker, and the
  command that is about to claim or remove a cache has looked at it. `Origins`: every pid and
  start token that a row or a command's locals hold belongs to a process that iold started,
  or to no process any more; tokens are starts, so a reused pid never shows an old one.
- `RunInv` (`RuntimeProofs`). `ProcInv` says where each runtime can be found: its group is
  on record (`Traced`), or a STARTING intent that is older than it will match it, or the
  command in `Guided` has it in its locals; all runtime processes form one group (`Kin`), a
  child before its exec is alone and holds the lock or has a waiting parent (`Hatching`).
  `Guided` says what destroy, recovery and the failure path of deploy have already
  established about the processes and the files of their deployment. `NoResidue` is part
  of the induction, because who removes files relies on the runtime being gone.
- `PromiseKept`: under `RunInv` each step is a step of `Deployments` or a stutter; one
  lemma for every action that changes a phase, a runtime's processes or the files.

`Traceable` is `Single \/ Orderly`. `Single`: the runtime has no workers, and not both
the store and the stop can fail; kills may happen anywhere. `Orderly`: no kills and no
failures of the store; a runtime may fork any workers, and stops and probes may fail.
Beyond it lie the two ways in which a runtime gets lost: `OrphanedRuntime` is a kill
with workers, `FailedStop` the two failures.

### Opening the database and the log

`MigrationsProofs` proves, for any set of processes and any number of migrations that
each one's binary knows, provided one of the binaries knows at least as many as every
other (true of any finite set of them; `MigrationsAssumption` names it so that `Top`
exists):

- `OpenStoresAreComplete == Spec => []StoresComplete`,
- `FailuresAreLostRaces == Spec => []FailureIsLostRace`,
- `SchemaInOrder == Spec => Implements`, the refinement of `Schema`.

The three follow from one inductive invariant, `IInv`. `InStep` says that the committed
schema is exactly the first `db.version` migrations, which none of the three says; it
makes a statement that the schema admits the *next* one (`ApplicableIsNext`), whatever
version the process read and however old that reading is. `NotAhead` bounds what each
process knows of the version, which only grows; `Writes` says that who is between its
statement and its commit holds the write lock, so that the version it will commit is
the one that follows. A kill at any of these points rolls back and keeps all three.

`LogPipeProofs` proves, for any processes a runtime forks, in its group or outside, any
capacity of the pipe and any number of lines:

- `LogIsFaithful == Spec => []LogFaithful`: no interleaving of writers, interrupts,
  kills and failures loses, doubles, reorders or shows a line while the proxy reads, the
  file is always a redacted beginning, and at the end of file it is complete.
- `NobodyUnheard == Spec => []HeardUnlessFailed`.

`LogFaithful` compares concatenations and says nothing once the proxy has failed, so it is
not inductive. `InTransit` says it line by line and in every state of the proxy: the i-th line
sent is the i-th of the file, or the one in the proxy's hands, or in the pipe at the
place that is left. `Ends` is the argument about the write ends: from `startLogProxy` until
it closes its copy the CLI holds one, so the proxy cannot see an end of file before
the runtime has had its own, and who has none left can neither write nor fork.

### Port, health and readiness

`ServingProofs` proves, for any window, servers, visitors and timeouts:

- `PortIsItsOwn == Spec => []PortIsOwn`, if nobody but the replaced deployment holds the port
  it recorded (`RecordedPortIsKept`; otherwise `ReleasedPort`);
- `FreePortFound == Spec => FreePortIsFound`, without a condition;
- `OwnRuntimeServes == Spec => []ServedByOwnRuntime`, if no other server of the same model name
  takes the new key or goes without one (`KeyIsSecret`; otherwise `OpenServer`).

`Typed` relates label, phase, port and runtime, and bounds each wait: it overshoots its
deadline by a poll and a request. `Vacant` says who holds the chosen port until the
first visit. `Ahead(p)` says that a port that stays free has not been passed by the
scan. `Served` says, label by label, who answered what was asked so far: only a server
that knows the new key answers an inference.

### Retries

`RegistrationProofs` proves for any calls, policies and options of the gateway, and any
number of lost, late and repeated messages: `ResultsAreTrue == Spec => []ResultsTrue`,
`ExhaustionIsEarned == Spec => []ExhaustedIsEarned`, `TimeIsBounded == Spec =>
[]TimeBounded`, `CancellationStops == Spec => CancelStopsAttempts`.

`Told` says what every answer still in the network means for the gateway, which changes
while the answer travels: that is what makes a late one harmless. `Costs` counts: each
failed attempt of a call has a fault or a refusal of its own, none counted twice.
`Spent` bounds the time at each label by the attempts and backoffs before it. In
`TypeOK` the time is an integer: that a power of the multiplier is positive is an
induction over its exponent, which the provers cannot do, and the upper bound does not
need it.

### Planning

`PlanningProofs` proves for any contents, hosts, units and pushes:

- `DeploysAsEstimated == Spec => []DeploysWhatItEstimated` and
  `PlanPredicts == Spec => []PlanPredictsDeploy`;
- `GateAgreesWithCheck == Spec => []GateImpliesVRAMCheck` and `AdmissionHasRoom == Spec
  => []AdmittedHasRoom`, if ten times an estimate and six times its weights are below
  `Half` (`SizesFit`: up to some 900 PB; the code multiplies before it divides);
- `DoctorAgrees == Spec => []DoctorAgreesWithPreflight`, if the catalog's model is FP4
  and needs at least 32 GiB, as it is and does. A smaller or unquantized entry would be
  refused by the doctor alone.

`PlanInv` says that both decisions are functions of the revision they name, of their
flags and of the host: a push appends a revision and cannot change one. The rest is
arithmetic (`Rounding`, `VRAMRounding`, `DiskRounding`): rounding up twice, in tenths
and then in units, exceeds a whole number of units only if the value does. `SizesFit`
also says that the sizes are numbers: `WeightBytes` sums over a census with a fold, and
what a fold computes is an induction over data.

### Variants

`SuggestProofs` proves for any hub, limits, GPU and model:

- `BestFirst == Spec => []MostDownloadedFirst`;
- `SuggestionsAreWorthHaving == Spec => []SuggestionsHelp`, if weights, cache and
  overhead of each variant are together below `Half` (`VariantsFit`). Without it a cache
  that wraps makes a big variant small, as in `ContextOverflow`.

`MostDownloadedFirst` relates what was found to what was suggested and says nothing of
the ranking between them. `Ranked` does: found candidates, each once, each after all
that have more downloads, whichever permutation the sort chose and wherever it was cut.
That the permutation names every candidate is `EveryElementListed`: an injection between
finite sets of one size is onto. `LookedAt` says that what was suggested or passed over
is a prefix of the ranking; it counts only because no two candidates have one key
(`FoundDiffer`), which is also why the suggestions differ.

### Only model-checked

- All liveness (`LockComesBack`, `DestroyCompletes`, `RepeatedOpenSucceeds`,
  `ProxyEnds`, `WriterUnblocked`, `DoReturns`, `DeployEnds`): it needs fairness and
  ENABLED, which are beyond the prover.
- What the sums over a census, the powers of the backoff's multiplier and the redaction
  of a file compute, where a theorem would need their values: inductions over data. The
  theorems take the first as numbers that fit, and do not need the others.

## 7. Abstractions

- Identity of a process. The code compares a start time with a boot-relative token
  and a command line; the model uses the number of process starts as the clock, so
  two processes never share a token. A deployment's command line is its id: two
  deployments of one id have the same command line, as in the code.
- `FindByCommand` looks back with some slack for clock granularity; the model
  compares starts exactly.
- Timestamps of rows (`updated_at`) are that clock; every write sets it.
- Each SQL statement is atomic, as SQLite guarantees; a failing one writes nothing.
- Waiting loops (health, readiness, the grace period) are one step that succeeds when
  the condition holds or fails at any time, since their deadlines are not related to
  anything else in the model.
- In the lifecycle any process of the group may answer the readiness request, as a port
  is not bound to a pid, and nobody else does. That nobody else passes for the runtime is
  what `ServedByOwnRuntime` checks, with the exception of `OpenServer`.
- SIGTERM has no effect of its own: each process exits in its own time or not at all.
- The log proxy is started by a fork of its own; that it too inherits the lock for the
  moment before its exec is left out, as the runtime's child already shows the effect.
- In the lifecycle what resolving the model and preflight decide is a free choice; they
  read only. `Planning` and `Serving` say how they decide.
- Rows written before the schema had columns for the process identity and the model
  cache are not modelled; `Migrations` models the schema, not the rows.
- `Serving`: a failed `Stop` or transition is only an outcome here, since the lifecycle
  models them. One port request is one step; a bind happens at one moment.
- `Planner`: the code compares floats (0.9 and 0.85 of the VRAM); for totals below 2^53
  these comparisons are those of the rationals up to rounding of the last bit, and the
  model compares rationals. Parameter sizes are in bits, so that half a byte is an integer.
  A repository's data is its census of parameters by type, a marker of a quantization
  in its name or tags, and its config.
- `Preflight`: of a version only the major number; warnings of the doctor are not
  failures and are left out; a GPU whose name is the expected one passes the doctor's
  architecture check through its compute capability.
- `LogPipe`: a line is its writer and its kind (plain, secret, long, redacted); a write
  is one line, and lines of different processes interleave as whole lines.
- `Registration`: an idempotency key stands for a call; the order of messages is free.
- `Backoff`: durations are integers, the jitter the two ends of its range.

## 8. Not modelled, and the plan

The lifecycle under kills came first, then the parts around it, then the proofs: every
safety invariant, action property and refinement that a passing run checks is a theorem.
What remains of the plan:

1. `NothingIsDropped` for workers beside kills, for the states in which recovery finds
   its candidate: a hypothesis weaker than `Traceable` that still excludes
   `OrphanedRuntime`.
2. What `retry.Do` promises, as an abstract specification of its own: one outcome per
   call, and only one that the gateway's answers earned; `Registration` as its
   implementation.

Not modelled, and why:

- `iold logs`, usage texts and exit codes: a row is read and a file copied to the terminal,
  or an error mapped to text and a number; no state changes. What happens to the copying of
  lines is in `LogPipe`, and the unlocked `Open` of `logs` in `Migrations`.
- The patterns of `redact` (regular expressions over text): a line is redacted or not.
- The parsing of `/proc`, `ps`, `nvidia-smi` and JSON, the markers of a quantization in a
  model's name, the static catalog: conversions of text without state.
- `identity_darwin.go` and `identity_other.go`: other platforms' ways to the same identity.
- The gateway fake's `handleGet` and the fake vLLM's streaming: nothing calls them but tests.
- The installer: a download script outside the program.
