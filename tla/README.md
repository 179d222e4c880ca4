# Diachronic in TLA+

Diachronic runs XState machines as durable Temporal workflows and moves running
workflows to new versions of their code: a CI workflow rolls a new version out
by feature flag, tells the old workflows to migrate, and removes the old
version. Around this are a signaler through which the world talks to workflows, a
development loop that builds and deploys, and tools that read a state machine.
This directory models that code, checks it with TLC and proves what matters most
with TLAPS. Paths below are relative to `src/packages/` of the
repository; `PROJECT.json` gives the lines of every definition.

    tlc -config DurableWorkflow_safety.cfg MCDurableWorkflow.tla
    tlapm DurableWorkflowProofs.tla

## The system

| Component | State | Operations | Hard parts |
|---|---|---|---|
| Durable workflow, `migrate/src/index.ts`, `can-migrate.ts` | state and context of the machine, `awaitingContinuationCondition`, `okToMigrateSubscription`, `blocker` | application signals, migrate, reset, start from nothing or from a continuation, completion | signals in one task with a migration, migration that waits, replayed tasks, a machine that finishes meanwhile |
| Interpreter timers, `migrate/src/interpreter.ts` | `data.timers`, armed timers | delaySend, cancel, restore, start of new timers | elapsed time across runs, changed delays, timers of states that were left |
| Rollout workflow, `ci/src/workflow-rollout.ts` | percent of the loop, the flag | check, write, step, cancel | operator changes, failed and late activities |
| Migration workflow, `ci/src/workflow-migration.ts` | `signaledWorkflows`, `unmigratedWorkflows` | poll, signal a batch, remove deployment and flag | check-then-delete, partial batches, retries |
| Cleanup workflow, `ci/src/workflow-cleanup.ts` | count on the task queue | poll, remove deployment and flag | check-then-delete |
| Deployment workflow, `ci/src/workflow-ci.ts`, `lib/self.ts` | versions, handles and exits of the children | deploy.success, rollout.start/cancel, migration.start, rollout.done, migration.done | order of the children's ends, signals that come early, closing once |
| Version flags, `toolbox/src/infra/feature-flag-config.ts`, `feature-flag-client` | flags and their strategies in Unleash, the client's cache | create/restore, apply strategy, archive, choose a task queue | read-then-write, order by name, stale cache |
| Signaler, `signaler` | the requests it serves | signal, start, batch, update; choice of a task queue | calls that fail or whose answer is lost |
| Request and response, `workflow-request-response` | subscription and callback of each request, timer | ask, reply | late, lost, doubled and malformed replies, the subscription racing the signal |
| Development loop, `toolbox/src/infra/dev-loop.ts` | calls on the stack, buffer of changes, log streams | change, Enter, build again | changes during a build, failures, restarts |
| Pipelines, `toolbox/src/infra/pipeline.ts`, `reload-pipeline.ts` | build directory, image registry, manifests, bucket | compile, image, push, apply, wait; upload, publish | stale outputs, tags that are taken, waiting for the right pods |
| Reload worker, `workflow/src/reload-worker` | queue of messages, child processes | load, stop, start | messages that are lost or dropped, crashes |
| Activities, `activity`, `workflow/src/activities.ts` | none; one call has attempts | call, validate, errors to Temporal and back | retries, late answers, errors that are final |
| Debounced call, `workflow/src/debounced-fn-call-workflow.ts` | child handle, timeout | call, invoke | two first calls |
| Simulated clock, `migrate/src/clock.ts` | timeouts, now | set, increment | callbacks that use the clock |
| State tree, `migrate/src/visit.ts`, `analysis.ts` | none | state values, events, comparison of two machines | recursion, ids that are not state values |
| HTTP, schema conversion, health check, utilities, CDC, example | none of their own | decoding, conversions | I/O |

How they interact: the deployment workflow creates the flag of a version, starts
rollout (child, terminated with its parent) and migration (child, abandoned to
live on). Rollout raises the flag's percent. Migration asks the flag which of the
old workflows are due and sends them `diachronic.v1.migrate`; each durable
workflow continues as new on the new task queue, in a state its migration
function maps and with its timers restored. When the old queue is empty,
migration (or cleanup, for versions that do not migrate) deletes the deployment
and archives the flag. The signaler starts new workflows on the queue the flags
choose, and waits for answers on MQTT topics. On a developer's machine the loop runs
one of two pipelines after each change; one of them sends the reload worker in the
cluster a message to load the new build.

What makes each part correct: a workflow loses and repeats no signal, moves only
where `canMigrate` allows, and ends when its machine does; a timer fires when
its delay ends; traffic only goes up, a step at a time, and stops when a person
interferes; every old workflow is told to migrate and none is left without a
worker; a deployment closes exactly when its children have. A version has one flag
and nobody but testers gets to it before its rollout; a request succeeds only with
its own answer and leaves nothing behind; a loop at rest has built and deployed what
it was told of; an error that is final is not tried again; and what is read off a
machine is all that it can do.

## Modules

| Module | Models | Checked by | Proved in |
|---|---|---|---|
| `DurableWorkflow` | one workflow over its runs | `MCDurableWorkflow` | `DurableWorkflowProofs` |
| `Entity` | what a durable workflow promises to those who signal it, as an abstract specification | implemented by `DurableWorkflow` | `ImplementsEntity` |
| `AfterTimer` | one delayed transition over runs and versions | `MCAfterTimer` | `MachineProofs` |
| `Rollout` | the rollout workflow, the flag it writes, an operator | `MCRollout` | `RolloutProofs` |
| `Migration` | the migration and the cleanup workflow, the old workflows, the flag that chooses them | `MCMigration` | `MigrationProofs` |
| `CiWorkflow` | the deployment workflow, its signals and its three children | `MCCiWorkflow` | `CiWorkflowProofs` |
| `VersionFlags` | the flags of all versions of a workflow, deployments, rollbacks, the client | `MCVersionFlags` | `VersionFlagsProofs` |
| `Signaler` | requests to the signaler, their calls, listeners, timers and replies | `MCSignaler` | `OutsideProofs` |
| `DevLoop` | the development loop and the pipeline it runs; EXTENDS `ReloadWorker` | `MCDevLoop` | `DevLoopProofs` |
| `ReloadWorker` | the agent in the container of a reloadable worker | with `DevLoop` | with `DevLoop` |
| `Rebuild` | what the loop promises, as an abstract specification | implemented by `DevLoop` | `ImplementsRebuild` |
| `SimulatedClock` | the clock of tests | `MCSimulatedClock` | `OutsideProofs` |
| `StateTree`, `Analysis` | `visit.ts` and `analysis.ts` over the machines that can be grown and edited | `MCStateTree` | `MachineProofs` |
| `Activity` | one call of an activity and its attempts | `MCActivity` | `OutsideProofs` |

Definitions whose comment says "Wrong on purpose" are the mutants that show each
property can fail; nothing else uses them.

### DurableWorkflow

`run` is the closure of the workflow function: `state` and `context` are
`currentState` and `currentContext` (the context is the ids of the signals the
machine applied, which is all the properties need of it), `awaiting`, `target`
and `blocker` are `awaitingContinuationCondition`, the queue of
`okToMigrateSubscription`, and the `Trigger`. The machine is a constant: any
function from state and signal to state, any tags and invocations.

- `Notify` is what the subscribers of `interpreter.subscribe` do on a
  transition, in the order they were registered: save state and context, then
  the waiting migration, then (on completion) settle the blocker.
- `HandleMigrate` and `ResumeMigrate` are `handleMigrate` before and after
  `await sleep(0)`; anything may happen in between. `HandleEvent` is the default
  branch of the signal handler, `HandleReset` is `handleReset`.
- `StartRun` starts the machine, fresh or from a continuation. A run throws
  before it has one (`Unreceived`) when the payload is invalid, the migration function
  rejects it, or what that returns is no state of the machine
  (`migrate/src/index.ts:308-316`, `:321`, `:365-368`). `Receivable` says for which states; what
  of the context or the timers decides it is left out. A plain error fails the task
  and not the workflow, so the service tries it again, with all signals that have
  come meanwhile, for as long as this code runs (`FailTask`).
- The Temporal service is external. It accepts signals, hands all that wait to a
  task, runs a task's signals before the machine's own events and woken
  sleeps, and refuses a task that closes the run while signals wait:
  the task is then replayed with them (`RefuseTask`). The `continue` of a reset
  that throws and the settled blocker may reach it in either order.

`Entity` has no runs, tasks or replays: it is sent signals and takes them batch by
batch. A batch happens as a whole; the signals it applies follow all that were
applied before, in the order of sending; it may move to another version, be reset or
complete only with no signal waiting, and it moves only in a state that may. What of
a batch is not applied is open, but it is the batch's own signals only. `DurableWorkflow`
implements it (`IsEntity`): until a task is done its state is the one before the task
(`Committed`), and the signals dealt with are those that neither wait nor were taken by it
(`Dealt`).

History variables: `lost` (ids the old run applied that its successor never
heard of), `consumed` (ids used up without reaching the context, as is meant).

### AfterTimer

`entry` is `data.timers[id]`, `pending` the timer `cancel` would clear,
`orphans` timers still armed under an id whose handle was overwritten.
`DelaySend`, `Cancel`, `RestoredDelay`, `StartNewTimer` and `RestoreTimer` are the
functions of `interpreter.ts`; `Resume` combines them as `index.ts:386-436` does.

Every timer has an entry and a handle of its own, and meets the others in one
place: a run starts its new timers in one loop and restores the old ones in another,
each in a subscriber of the machine (`interpreter.ts:186-230`, `:284-345`). When a
timer throws (it has no function where one is started, or its function reads a
context it is not given) the loop ends: the timers before it are armed
(`Armed`), those after it are not (`Skipped`), and the subscriber, which would have
unsubscribed after the loop, stays. `list` is such a broken list, and `Notified` the
machine calling the subscriber again in the state of the start, where it runs the
list again and overwrites what it armed before. `Throws` says in which versions another timer
may do this. XState reports what a subscriber throws and notifies the others; that
it does is an assumption about it. Were it to let `start()` throw, the task would fail as in
`Unreceived`, and such a run would never be up. That the list is run again at every
notification is left open (`Notified` may happen or not), so a subscriber that is
closed after its error is one of the behaviours.

`Has` says which versions have the transition and `Named` which have a function
under its delay's name; neither follows from the other. A version that dropped the
transition and kept the function restores the timer all the same
(`interpreter.ts:285-300`, and the todo there), and as the state has no transition
there, leaving it cancels nothing. `Leaves` and `Keeps` describe what the
migration function does with the state and the timer, `ReadsContext` whether the
function uses its argument, `Exiting` whether the transition leaves the state. History:
`kept` (a migration function returned the timer of a state it left), `dropped` (a version
without the transition restored it), `skipped` (the timer of this visit was behind the
break of a list). Time passes between two runs without limit (up to `MaxTime`); while
a run is up a due timer fires first.

### Rollout

`flag` is the "All other traffic" strategy; the properties need its percent,
whether it is there and whether it is disabled. `percent` is the loop's
variable. `CheckPasses`, `CheckDies` and `ActivityFails` are the three ways
through a step of the loop up to its end or its write; `Applied` is the write's
success. The write is an activity: `AttemptReads` and `AttemptWrites` are the
two requests of `applyFlagStrategy`, the service may retry an attempt whose
answer it lost, and an activity that was closed after 15 s
(`activity/src/activity.ts:53`) may leave an attempt under way. The operator is
anyone who changes the strategy, including a deployment that sets it to 0%.

`Outlives` says whether such an attempt may arrive after the next step's sleep
(60 s by default). The runs and theorems take FALSE: with TRUE a late write puts
an old percent back, and the theorems' assumption names exactly this.
The check reads the flag in `toVersion.environment`, the write goes to the
default environment (`workflow-rollout.ts:153-156`, `:206-209`); the model has
one environment, which is the case of a default deployment.

### Migration

One module for `workflow-migration.ts` and `workflow-cleanup.ts`, which poll and
remove alike; `program` says which of them runs, and a cleanup lists and signals
nothing. `pc` is where the program is: the batch (`List`, `Signal`,
`BatchDone`, `BatchFails`), the poll of the old task queue (`Poll`,
`ListingFails`), the wait for the schedule (`Wake`), `ContinueAsNew`, and the
removal (`Find`, `Remove`, `Archive`, `RemovalFails`). `Batch` is the activity's
choice of ids: on the old queue, not signalled before, and due by the flag
(`due`). A batch's activity may be closed with an attempt under way, whose
signals then arrive late (`SignalLate`).

The old workflows start, move and end as the durable workflow allows
(`StartOld`, `Move`, `Finish`); an id may come back, as ids do. The rollout
raises the flag and an operator may lower it. `told`, `confirmed`, `wasDue` and
`newcomers` are history. When it fails, the workflow function rejects with an
`Exit` instead of an error (`workflow-migration.ts:253-283`), which fails its
task over and over but leaves the execution standing; so `pc = "failed"` is a
workflow that does nothing more and has not closed.

### CiWorkflow

The database is shared by all handlers and every signal starts one, so the state
is `db` and, for every wait and version, how many handlers wait there:
`handlers[a][v]`. An action takes one handler from a wait to its next, with all
that the code does in between; `HandleRollout` and `HandleMigration` are
`handleRollout` and `handleMigration` up to their first wait, which signals and
other handlers start. A handler that fails is only logged
(`workflow-ci.ts:79-92`), so it disappears.

- `FlagsRead`, `FlagApplied`, `Simulated` are the handler of `deploy.success`. Each
  signal says whether its deployment migrates, and `FlagsRead` writes that, with the
  version to be replaced, over what another deployment wrote (`:248-258`);
  `HandleMigration` and `RolloutDone` read what is there by then (`:676`).
  `seq` is the flags, ordered by their number, as the activities see them.
- `RolloutStarts`, `MigrationStarts`, `CleanupStarts` start the children; each id
  may be taken, and then the start is refused. The handlers mean to tolerate this,
  but ask a `Cause` whether it is that error (`:498-511`).
- `RolloutDone` and `MigrationDone` are the handlers of the two internal signals,
  which close the deployment through `self.close`. That always resolves the
  blocker, since what it is given has been through JSON and is no `Exit` any more.
- The children are external here: the rollout is terminated with its parent,
  migration and cleanup outlive it. A rollout without a version fails at once. A
  failed migration stands (above) until it is terminated.

`deploys`, `started`, `refused`, `serving` and `mixed` (deployments of both kinds have
met in this execution) are history. Cancelling the rollout
is one step: what the rollout does when cancelled is in `Rollout`. The signals
`rollout.done` and `migration.done` come from the workflow itself only.

### VersionFlags

`flags` is what Unleash stores, by name: a sequence number and a version. `deploy[d]`
is where an attempt of `applyWorkflowVersionFlag` is and what it has read, and each
of its requests is an action: `List`, `Create`, `Restore`, `ApplyTest`,
`FindGeneral`, `WriteGeneral`, `Enable`; any of them may fail, done or not, and the
activity may begin again. `SetTraffic` is a rollout or an operator, `FindFlag` and
`Archive` a rollback, `Refresh` the client's poll and `VersionFor` its answer
(`getWorkflowTaskQueue`). Numbers are compared as the padded text they are
(`NumberBelow`), so the thousandth flag of three digits is in the model. `Newest` is a set,
empty or with the one flag above all others, since that the order of names is total
is not needed. `older`, `met` and `rolled` are history: which flag was made first,
which creations met, which versions were ever given traffic.

### Signaler

`req[r]` is a request with its call to Temporal, its listener and its timer, which
`workflowUpdate` runs side by side; `Settle` is what `raceAll` inside `all` makes of
their ends and `Close` the interruption of the rest. A promise cannot be interrupted,
so an abandoned call may still arrive. `topics` is the broker's subscriptions;
`Subscribe` is apart from the request because the broker hears of it later, `Hears` is
the comparison of topics in the callback all requests share. `Accepts` is the filter
of `task-queue.ts` as it is written.

### DevLoop, ReloadWorker, Rebuild

`loop.frames` is the recursion of `watchLoop`, `loop.buffered` the buffer of changes,
`build` the pipeline under way with its stage and what it has read; code is
told apart by the edit its sources were read at. `Compile` is one unit's bundling,
which leaves the old output when it fails; `Verdict` the check of all results,
with its sides swapped in the reload pipeline; from there each stage is an action
of one pipeline or the other, and any may fail. `Cached` are the units a build loads
with `require`. `ReloadWorker` is the other end: `Receive` drops the oldest message
of a full queue, `Load` and `Reset` are the loop of `primary.ts`, `ChildExits` and
`Crash` what nobody handles. `told` is history.

`Rebuild` has no loop, buffer or stages: it is told of changes, reads units at times of
its own, and rests only when all of them are as new as what it was told of. `DevLoop`
implements it (`Rebuilds`) with `read` mapped to what the build has read of the units
that are not cached, and `state` to whether the loop is alive and builds.

The manifests of reloadable workers set `EI_CI_MQTT_BROKER_URL` and `EI_CI_MQTT_TOPIC`
(`reload-pipeline.ts:526-529`) while the agent reads names that begin with
`DIACHRONIC_CI` (`reload-worker/config.ts:8-9`); the model takes it that the
deployment's own manifest provides those.

### SimulatedClock

`flushes` is the stack of calls of `flushTimeouts`, each with what is left of its
sorted copy; a callback is any sequence of `SetTimeout`, `ClearTimeout`,
`ClearAllTimers` and `MoveTo`, which begins another flush inside. A callback may throw
(`CallbackThrows`): the flush that called it is given up with what it had left, and so is
the flush around it, unless the callback there goes on. `thrown` remembers this until
the test moves the clock again, since that flush makes up for it.

### StateTree and Analysis

A machine grows state by state, with marks (tags and actors) for `canMigrate`, or with
handlers and delays for `analysis.ts`. A handler is for a descriptor, the name of an event
or a wildcard; `Matching` gives those that take an event, the most specific first. `Visited` and `Kept` are the visitor with its
count of keys, `ValuesBelow` is the reference: what XState says a machine can be in.
It is no recursion but a condition on sets of leaves: at each active state the right
children are active, one of a compound state and all of a parallel one. `Resolve` is
such a set too, the leaves on whose way down every choice is the one made or the
first child. `Inbound` is `getStateToInboundEvents`, with "*" and the delays taken out
(`signals`, `analysis.ts:163-172`); `Nearest` is the reference, the one transition XState takes. The two
traversals of the code, `Visited` and `Inbound`, are recursive functions. In `Analysis` the
grown machine is released as version `a` and edited to be `b`; `compare` and
`getBreakingChanges` are the code's, `CarriesOver` is what a run would really find.
A transition to a state named by its id makes `makeStateId` throw, so two
versions are `Compared` only if neither has one (`throws`, `analysis.ts:55-61`).

### Activity

`Start`, `GivesUp`, `TimesOut` and the choice in `Ends` are Temporal's; an attempt
that was given up may run on. `Validated` is `validate`, `GetFailure`, `ToApplicationFailure`
and `Thrown` are the three steps an error takes out of the worker, `MapError` and
`OnFailure` those into the workflow. An error is what the code asks of it: a tag,
being an `Error`, having a `toJSON`, being final, and its schema.

## Runs

| Run | Shows |
|---|---|
| `DurableWorkflow_safety` | the workflow implements `Entity`; order, no duplicates, all signals accounted for, a migration that happens at once loses none, no waiting without a subscription, migration only where allowed; finished machines complete and waiting migrations happen, but for one that waits in a final state that may not migrate and one moved to a version that cannot receive it |
| `AfterTimer_safety` | entry and timer agree; no active state without its timer, if its delay has a function that leaves the context alone and no other timer broke its list off; no timer escapes `cancel` unless a migration function kept it, a version dropped its transition and not its function, or a list broke off; the wait is bounded; on time over one migration that leaves the delay as it was |
| `Rollout_steps` | an operator's change outside a step stands; the rollout ends; undisturbed, it makes its last step |
| `Migration_safety` | only the due are told; the confirmed are not told again; whoever is stranded started after the poll; the workflow ends if the flag rises for all, no id is reused, the run keeps its arguments and the removal does not fail |
| `CiWorkflow_safety` | a deployment is open until both results are in and not after; nothing of it runs when it closes, unless a deployment of the other kind has overwritten what it said; what was just rolled out is not cleaned up; it closes if nothing fails |
| `VersionFlags_safety` | unless two creations met, a version has one flag and flags sort as they were made, for as long as numbers have three digits; nobody but testers is sent to a version that was never given traffic |
| `Signaler_safety` | a success has its own reply and its signal applied; a request that ended has no callback and no subscription; one that has its reply ends |
| `Signaler_timeout` (violation) | a request whose reply never comes does not end, though its timer fires |
| `DevLoop_safety` | the loop implements `Rebuild`; in interactive mode the pods of a loop at rest run what it built last; the agent serves what it was last told of |
| `SimulatedClock_safety` | after a flush nothing is overdue unless a callback threw; timers fire once and in order unless a callback moved the clock |
| `StateTree_safety` | migration types are exhaustive for the machines `visit.ts` is written for; no event is missed that a transition below the root takes by its name or a partial wildcard; no state or delay that a migration cannot carry over is left unreported |
| `Activity_safety` | a final error is not tried again; the workflow is shown the last attempt's end |

The type invariants are not among the runs' properties: they are theorems
(`TypeCorrect`, `TypesHold`, `MachinesAreTrees` and the like).

### What the code does not do

A run that finds a violation stands for each disagreement that is a finding
(`PROJECT.json`, `findings`). These other statements are definitions of the modules
too, and TLC refutes each of them when it is put in place of the run's properties:

- `NoSignalLost` (`DurableWorkflow`): a migration that waits hands over the state as it is when
  the machine first may migrate, so signals of the same task after that are lost
  (`migrate/src/index.ts:552`), where `:516-517` says it defers until "other async
  operations are complete", "receiving signals" included.
- `DoneMachineCloses`: a machine that finishes in a state that may not migrate while
  a migration waits leaves the workflow open for ever (`migrate/src/index.ts:475`).
  Without its last condition `FinishedMachineCloses` fails: a machine that is done is moved
  to a version that cannot receive it, whose task fails for ever (`:308-368`).
- `OnSchedule` (`AfterTimer`): a restored timer is recorded with its shortened delay, so the
  second migration computes it anew (`migrate/src/interpreter.ts:303`); with another
  delay in the new version the elapsed time is subtracted twice even at the first
  (`:311`). `EveryDelayRuns`: a delay function that reads its argument is not started in the state
  a migration arrives in (`:205`), and a delay written as a number is dropped (`:287`).
  Without their conditions `NoOrphans`, `NotForgotten` and `OnScheduleOnce` fail too. A timer that
  was restored where its state lost the transition is overwritten when the state is entered
  in a later version that has it again, and cuts that visit short (`:273-300`); a list
  that broke off and is run again overwrites what it armed, and begins its delays anew
  (`:186-231`); and a timer behind the one that throws is never started (`:195`, `:217`).
- `OneStepAtATime` (`Rollout`): a change between the check and the write is overwritten
  (`ci/src/workflow-rollout.ts:225`; `ci/README.md:32` says it is noticed).
  `ReachesMax`: with `Step = 30` it completes at 90% (`:174`), and after one failed
  activity it goes on to a step whose check fails, where the log says "Retrying" (`:240`).
- `EndsAfterContinuing` (`Migration`): `continueAsNew` passes the database where the
  arguments belong, and the next run polls for ever (`ci/src/workflow-migration.ts:175`).
- `CiWorkflow`: without its condition on `started`, `ClosesWhenDone` fails: the exits of
  the first of two overlapping deployments close the workflow and terminate the
  second's rollout. Without `mixed`, it and `OpenUntilDone` fail: a deployment that migrates
  has its migration under way when one is made that does not; the end of the first's
  rollout then takes the branch of the second's kind (`ci/src/workflow-ci.ts:676`), and the
  cleanup closes the workflow while the migration runs, or the rollout's exit was
  recorded before, and the workflow stays open for no cleanup at all. Without `refused`,
  `OpenUntilDone` fails: a cleanup that is refused closes nothing. Without its condition on `db.rollout`, `CleansReplaced`
  fails: a version whose successor was cancelled is cleaned up while it serves.
  Without its conditions `RolloutCloses` fails: a refused child is never heard of,
  nor one whose parent continued as new, and the first deployment of a workflow never
  closes.
- `QueueFoundIsUsed` (`Signaler`): the filter lets the empty answer through and refuses a
  queue that was found (`signaler/src/task-queue.ts:29`). With `Connected = FALSE`
  every update waits for ever: the server's runtime is built in a scope that ends
  before the first request (`signaler/src/server.ts:26`).
- `FailsOnErrors` (`DevLoop`): the reload pipeline takes successes for errors: it fails when
  a unit compiles and goes on when all have failed (`reload-pipeline.ts:306`).
  `RestingIsUpToDate`: a statechart loaded with `require` stays what it was when the
  process began (`pipeline.ts:162`). In `Modes` "once" `DeployedIsBuilt` would fail:
  code that changed under one version finds its tag taken. The model counts log
  streams nobody stops (`leaked`, `dev-loop.ts:146`), and the reload message may come
  before the container has subscribed (`reload-pipeline.ts:637`).
- `EventsDoSomething` (`StateTree`): an event is listed in a state that forbids it, and
  the machine's own events in none; nor is one that only a "*" transition takes, though
  it does something, and one that a partial wildcard takes is listed as that wildcard
  (`migrate/src/analysis.ts:163-172`). `StateIdsSuffice` and `TransitionChangesShow`
  (`Analysis`): a state that becomes parallel keeps its id and cannot take the old
  value; a transition that was forbidden, or moved to a parent of the same
  shape, may not show. A transition to a state by its id, which XState allows, stops the
  analysis (`analysis.ts:55-61`).
- `ErrorsAreErrors` (`Activity`): the decoder of `makeWorkflowActivities` is given a
  `Cause` and the effect fails with that. `FinalIsFinal` is about errors as they
  leave `validate`, which replaces an error its schema does not have by its own, so
  that a final one becomes one to retry (`activity/src/validation.ts:40`).

### Bounds

`DurableWorkflow` takes three signals: an event, a migrate and one more meet
every handler before, after and inside a task. The machine begins at work, where it
may not migrate, so that three signals are enough for a migration that waits, the
state it waits for, and a signal after that in the same task. Two versions allow moving there and
back. The machine has a state that waits, one that works (and may not migrate), a
final one and a final one that may not migrate, which are the cases `canMigrate` and
completion distinguish. One version cannot receive one of the states. For timers a delay of 3 or 5 and 12 ticks let a
timer be younger, older and as old as its delay at each of three migrations between seven
versions, one of each kind: without the transition, with another delay, with a function
that reads its context, with a number for a delay, with the function only, and with
another timer that throws. Rollouts of four steps with up to two failures, a
retry and two operator changes reach every order of check, change, write and
failure within a step and across two. For migration two workflows, one of which
can return under its id, and two failures let one be listed, signalled, moved or
gone while the other is not, in every phase; a flag that may be lowered once
makes every answer of it stale. For the deployment three signals reach a
deployment with two more signals of any kind, two overlapping deployments
(`MaxDeploys`), which may or may not migrate each, and all orders of the children; a
version that exists and two that are deployed let each replace another.

For flags three attempts by two deployers over two versions let two creations meet, one
be tried again after a failure at any request, and a version be deployed after its
rollback; the flag at the start has number 998, so the order by text is met.
The users are a tester and one in the upper half of the traffic. In `Signaler` two updates of
one workflow, one of which may start it, share the client and the broker, and two
replies each let one be late or doubled. In `DevLoop` two edits, one Enter, two
restarts and a queue of two let changes come before, during and after a build, a
build fail twice, and a message be dropped. Three timers with delays of none, one and two and
flushes two deep let a callback cancel, arm and overtake another timer, and throw to the
test or to another callback. Machines have up to seven states and marks, or six states
and transitions of which two at most are transitions, in three levels; those that
are released and edited twice have up to five, each event transition counted twice. One
event can be named as it is, by a partial wildcard and by "*". Three attempts are enough for one to be given up, answer late and be
followed by two others.

Deadlock is not checked: workflows end, and bounds are reached.

### Fairness

`DurableWorkflow`: the service runs tasks and replays refused ones
(Temporal's guarantee), sleeps elapse and invoked actors end in time; a refused
task can interrupt that again and again, so the start of a task with everything
due is strongly fair; clients owe nothing. `Rollout`: timers fire, attempts end and their
results arrive; failures, cancellation and the operator owe nothing. `Migration`:
the program's activities and timers end (weak fairness of its iteration and its
removal), and a workflow that was told leaves; the flag owes nothing, so
`MigrationEnds` is conditional on its choosing all workflows from some point on.
`CiWorkflow`: activities, and the rollouts and migrations that do not get stuck, end
and are told of (Temporal's timeouts and retries, `Rollout`, `Migration`); clients and
the cleanup, whose old workflows may run on for as long as they like, owe nothing.
`Signaler`: the server handles its requests, calls to Temporal end one way or the other
and timers fire; workflows and the broker owe nothing. The other modules state
safety only: `Rebuild` says when the loop may rest, not that it does, since a
pipeline may wait for a cluster for ever.

## Theorems

All for every value of the constants, under the ASSUMEs of the modules.

- `DurableWorkflowProofs`. `IInv` adds to `TypeOK` an invariant of a run
  (`RunInv`) and how a task fits the run it works on (`TaskInv`). Both are
  required of the current run and task *and of the saved ones*, because a refused
  task brings those back. `RunInv` says that a settled blocker which continues
  holds a state that may migrate, that one which completes has the machine in a
  final state, and that a waiting run has a subscription or is settled. From
  it follow `TypeCorrect`, `WaitingRunsAreSubscribed`, `CompletionIsClean` and
  `MigrationsAreAllowed`. `WaitsAreForWhatIsToCome`: a migration waits only in a
  state that may not migrate, and a machine that is done has settled the blocker
  unless one waits there, again of the run and of the saved one (`WInv`).
  Signals: `AInv`: every id is in the context, consumed,
  lost, in the task or in the inbox, seen from the current run and from the
  saved one. Each handler deals with its signal and forgets none, so
  `SignalsAreAccounted`. `SInv`: a run settled to continue at once carries the
  context it has, and none is before the signals of its task are handled; only a
  woken `handleMigrate` settles one so, and after it only the machine's own event
  follows, which leaves the context. So `AtOnceNothingIsLost`: what a migration
  loses is lost by a subscription, never otherwise. Order: `OInv` says that what a run has applied, what its task still has and
  what waits in the inbox are each in order and one before the other (`InLine`), for
  the run and for the saved one a replay goes back to, and that the context of any
  continuation a run has settled on is in order too (`Payloads`). Hence `SignalsInOrderOnce`.
  Refinement: `EInv` says that signals are numbered without a gap (`NoGap`), and that a
  task begins with nothing decided and only adds: what the run has applied, and what it
  has put aside to continue with, extend the context before the task by signals
  the task was given (`Decided`, `RunGrows`). So the end of a task maps to a batch, a move, a
  reset or the end of the entity, an accepted signal to its sending, and all else,
  a refused task included, to a stutter (`StepIsPromised`, `ImplementsEntity`). From the
  same facts, `LossIsOfOneTask`: what a migration that waited loses was applied in
  the task in which it takes place.
- `MachineProofs`, of what is read off a machine and of its timers.
  `StateTree`, `Analysis`: `MachineInv` says that the states of the machine, and of the
  released version of it, form a tree (`IsTree`: with a state all that are above
  it, none below a final one), and that events are named by states there
  are; it is inductive (`MachinesAreTrees`), and the properties follow from it for
  every tree. No induction rule with an operator as parameter can be used, so
  properties of all depths are shown by the shortest or longest path for which they
  would fail (`Least`, `Greatest`, from the library's fact that every nonempty set
  of numbers has a least element). For a recursive function of the code the
  proof first gives a function that satisfies its equation, so that `Visited` and
  `Inbound` do, and then shows that the reference agrees with it from the
  leaves up, or from the root down (`VisitedIs`, `InboundIs`).
  `MigrationStatesExhaustive`: a value below a compound state is one below one child, a
  value below a parallel one joins values of each (`BelowCompound`,
  `BelowParallel`), which is what the visitor computes as long as each of two
  regions has states of its own (`GroupsAre`), and a complete value is what XState
  resolves it to (`ResolveIs`). `InboundEventsComplete`: the events of a state are the
  descriptors named on the way to it, "*" left out, hence among them the one by which
  the nearest state that takes an event does so.
  `ReportedOrCarried`, for versions that can be compared: of a value that is mapped, all states that its leaves enter
  are active when it is resolved (`MappedEnters`, `EnteredIsActive`).
  `AfterTimer`: an entry is never ahead of time and a run that is down has
  nothing armed; with these, agreement of entry and timer and the bound on the wait are
  inductive (`EntryDescribesTimer`, `WaitsAreBounded`). Unless a migration
  function kept a timer, a version without the transition restored one, or a list of this
  run broke off, nothing is armed or recorded outside the state, so
  there is nothing to overwrite (`NoOrphansUnlessKept`). `NamedIsNotForgotten`
  needs a delay function that leaves the context alone in the current version
  only, and that the current run did not break the timer's list off before it. `OnTimeOverFirstMigration`: until the run after the first
  migration has started, the record is the one made on entering the state, with the
  first version's delay (`AsEntered`), so what is restored is what was left of it;
  a timer armed afresh on arrival is on schedule by itself (`SInv`).
- `RolloutProofs`. At most one attempt is in flight, and it belongs to the step
  under way if there is one; unless an operator raced, the flag stands one step
  short of its target or at it. Hence `OnlyRacesOverwriteFlag` and, with no
  operator, `OneStepWhenAlone`. Undisturbed, the flag follows the loop's percent
  (`Followed`), hence `CompletionIsAtLast`. These assume `Outlives = FALSE`;
  `TypeCorrect` needs no assumption.

- `MigrationProofs`. Whoever is told or about to be told was once chosen by the
  flag (`OnlyTheDueAreTold`). A run that has its arguments remembers all
  confirmed ids and one that lost them has no batch, so the ids of a batch are
  never confirmed ones and only an attempt of a closed activity can reach those
  (`ConfirmedAreNotToldAgain`). From the poll that saw the
  queue empty on, whoever is on it started since (`StrandedAreNewcomers`). An id is
  remembered only with its signal sent, so a workflow that is passed over without
  having been told took the id of one that was (`RememberedWorkflowsWereTold`).
- `CiWorkflowProofs`. `TypeInv` adds to `TypeOK` that a running rollout has a
  handler that waits for it, and a closed deployment has none at all; without
  that the counts of handlers could fall below zero. A step is then reduced to
  what it does to the handlers, exits and children that decide the end:
  `Effect` lists ten such effects and `StepEffect` shows that every step has
  one of them. From the effects, and from there being nothing of a rollout before a
  deployment has written its flags (`ConfigFirst`), follow `OpenUntilBothDone` and the
  invariant `EndInv`: a child of which at most one was started has neither
  result nor exit while it runs, a cleanup is asked for only after the exit of
  the rollout, and nobody waits for a migration where no deployment migrates
  (`NotAsked`, as long as the execution has not met both kinds, `mixed`). Hence each
  of the three ways to close finds the rollout at its end, and the migration too unless
  both kinds met (`ClosesWhenBothDone`). `AloneInv`: in an execution with one
  deployment there is one version `u` that all its handlers are about, or none
  (a rollout asked for before the flags were read gets no version and cannot
  succeed); the version found to be replaced, which is what a cleanup is asked
  for, is never `u`; and a rollout that was heard to succeed has made `u` serve (`Alone`).
  Before the deployment nothing can happen at all (`Blank`), so the first deployment
  decides which version that is. Hence `CleansOnlyReplaced`.
  `ResultsAreNotLost`: a child that was started has its exit recorded, or runs and is
  waited for, or its handler is about to be told (`RolloutOwed`,
  `MigrationOwed`); the effects alone keep this. `OpenDeploymentsWait`: the one
  deployment reads the flags and takes its own before a rollout of a version can be
  asked for (`Staged`), and nobody overwrites what it said (`SaysOnce`), so whoever starts the rollout finds what it needs to ask for the
  migration (`MigrationAsked`), and the cleanup comes after the rollout's exit.

- `VersionFlagsProofs`. Whoever is about to make a flag has found its version to be
  without, and unless two met nobody else makes one in between: with that
  (`MakersHaveMet`, `OnlyFlag`) the flag made is the only one
  (`VersionsHaveOneFlag`). The number a deployment has taken is above those of all live
  flags (`InOrder`), and padded numbers of one length compare as numbers, hence
  `FlagsSortAsMade`; it needs no fact of exponentiation but that `Base ^ Width` is a
  number. A flag is enabled only with its test strategy, which is never taken away,
  and its others stay at zero until somebody gives its version traffic (`StaysDark`),
  so that at any point of a creation only testers are admitted
  (`VersionsAreDeployedDark`).
- `DevLoopProofs`. A build has a reason of its own (the start, an edit noticed, Enter,
  a restart), which bounds builds, calls and log streams (`TypesHold`).
  `ImplementsRebuild` rests on `CaughtUp`: as long as nothing is buffered, what the
  build under way has read is as new as what the loop was told of; every step of
  the loop then maps to a step of `Rebuild` or a stutter (`Refines`).
  `PodsRunTheLastBuild` follows the code through the stages (`Compiled`, `Tagged`,
  `Applied`): to the build directory, to an image under a tag no build had before, to
  the manifest and to pods of that tag. `AgentServesWhatItWasTold` follows it
  through the queue: the bucket's bundle only becomes newer (`Sources`), so a dropped
  message is made good by any that is taken later (`Told`).

- `OutsideProofs`, of the three parts that touch the world outside workflows.
  `Signaler`: `Sound(r)` ties a request to its call, listener, timer and topic: none
  of the three runs on once it has ended, a call that is done has delivered all, a
  listener that got something had a reply sent to its own topic, and only one that
  listens is subscribed. With that `SuccessMeansAnswered` and `RequestsLeaveNothing`
  follow, whatever is shared by the requests. A request that is open has not heard of
  anything that would have ended it (`Unsettled`), hence `OpenRequestsWait`: it waits for
  its call or its reply, or for the timer if it failed to listen.
  `Activity`: `Heeded` says that an attempt Temporal has heard of is over, that it waits for
  one it has not heard of, that nothing is shown before the call is closed, and that
  a final error it has heard of is the last attempt's, of a closed call
  (`FinalIsNotRetried`, `LastAttemptIsShown`); a lemma for each of the conversions
  says what it keeps.
  `SimulatedClock`: sorting gives the timers there are, in order (`SortedInOrder`). A
  timer that is set and behind the clock is still ahead in the copy of the innermost
  flush (`NoneLost`), unless a callback has thrown since the test last moved the clock and
  flushes were given up; so when the last flush returns nothing is overdue
  (`NothingLeftOverdue`). Unless a callback moved the clock there is one flush at
  a time, and what has fired ends no later than anything that is set or ahead
  (`Past`, `Orderly`), hence `TimersFireInOrder`.

Every invariant and action property of a passing run is a theorem, and so are both
refinements. Only model-checked is what holds under fairness: liveness
and `ENABLED` are out of the proof system's reach. Of all but one of these properties there is a
theorem about the safety they rest on, that nobody waits for what has happened or can
no longer come; what then makes it come is fairness alone, and TLC's:

| Liveness, checked by TLC | What it rests on, proved |
|---|---|
| `FinishedMachineCloses`, `WaitingMigrationHappens` | `WaitsAreForWhatIsToCome` |
| `MigrationEnds` | `RememberedWorkflowsWereTold` |
| `RolloutCloses` | `ResultsAreNotLost`, `OpenDeploymentsWait` |
| `HeardEnds` | `OpenRequestsWait` |
| `RolloutEnds` | none: the loop waits for nobody but its timer and activities |

## Not modelled

The write of the database snapshot when a run is continued, which nobody awaits
(`migrate/src/index.ts:336`); queries (they change nothing); logging; the decoding of
payloads beyond whether it succeeds; machines with several actors or timers at once
beyond what one internal event, one timer, and lists of timers that another breaks off
show; the delay with which Temporal's
listings see a start or an end; the timeout of a whole workflow execution; the
simulations a deployment starts (no other part reads their results); transitions
without an event in `analysis.ts`; service accounts, secrets and the set-up of
deployments with Pulumi; and the components marked `not_modelled` in `PROJECT.json`.

Things the code is exposed to that no property is about:

- A timer that fired without leaving its state keeps its entry, so each later
  migration arms it again (`migrate/src/interpreter.ts:97`); the model shows it.
- When no deployment is found the handler yields undefined, which the next step
  iterates, and archiving the flag is not idempotent
  (`ci/src/workflow-migration.ts:206`, `:243`): in `Migration` either fails the workflow.
- A cancellation that arrives while the rollout child is being started finds no
  handle (`ci/src/workflow-ci.ts:645`); in `CiWorkflow` such a signal is dropped.
- The flag to delete is found by the end of its name
  (`feature-flag-config.ts:380`); `EndsWith` allows for it, and the run has ids none of
  which ends another.
- Two first calls of a debounced function both start the child
  (`workflow/src/debounced-fn-call-workflow.ts:51`); nothing in the repository uses it.

## Plan

Done: all modules above. Next, in this order:

1. `Rollout` shown to implement the child that `CiWorkflow` sees (runs, ends once,
   `serving` changes only with success).
2. `VersionFlags` with the rollout of `Rollout` in place of `SetTraffic`.
