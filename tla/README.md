# ProductWoc: a TLA+ verification project

ProductWoc turns an approved plan into verified changes of a local workspace.
*Planning* produces a project spec, a technical design and an execution plan,
each approved by a user; *development* executes the plan task by task: a model
proposes a patch, the patch is applied, verification produces evidence, gates
wait for a user, and everything is kept in a durable checkpoint.

This directory holds TLA+ models of that code, the TLC configurations that
check them, and proofs checked by TLAPS. Paths below are relative to the
repository.

## Inventory

| Part | State it keeps | Operations | Hard behaviour |
|---|---|---|---|
| Development aggregate, `packages/development-domain/src/aggregate.ts`, `state-machine.ts` | run, phase, task and agent statuses, evidence, gate decisions, invalidations, repair attempts | start, begin task, transition, record evidence, complete, begin and record repair, require user action, confirm gate, planning revision, rerun with another model, pause, resume, cancel | long sequences of legal commands; reruns in the middle of other work; evidence that outlives what it proves |
| Execution graph, `development-domain/src/graph.ts`, `planning-domain/src/execution-plan.ts` | none | stable order, ancestors, dependents, cycles, reachability, the two plan validations | two validations of one plan; closure under dependencies |
| Checkpoint store and outbox, `development-adapters/src/checkpoint-store.ts`, `development-workflow/src/durable.ts` | the record file (revision, checkpoint value with its command receipts, outbox), a lock file, temporary files | load, commit, pending outbox, mark published; durable command with replay; event publication | several processes; crashes between any two file operations; at-least-once delivery |
| Durable operations and recovery, `durable.ts` | the pending operation, recovery audits | prepare, control, recover | a crash between a side effect and its commit |
| Patch transactions, `patch-transaction.ts` | writer lease, journal, remembered results | reserve, apply with compensation, user rollback | partial failure, edits in between, results lost on restart |
| Verification, `verification.ts`, command runner, `command-runner.ts` | a running command, its timers, the evidence collected so far | run the steps of a task, record the result | timers against exits, descendants that hold streams; runs for minutes over files others may change |
| Repair session and model router, `development-agent/src/repair.ts`, `model-router.ts` | repair session, model policy, a call under way | request repair, record its outcome; select a route, invoke, fall back | a policy that changes during a call; failures between two services |
| Development lab, `apps/development-lab` | model policies | bootstrap, pause, cancel, gate, recover and resume, verify, rollback, retry | handlers interleave at every await; side effect before commit |
| Planning aggregate, `packages/planning-domain/src/aggregate.ts` | status, document versions, approvals, answered requests, start envelope | return, reject, record a version, approve | what an approval still means after returns |
| Planning workflow and lab, `planning-workflow/src/durable.ts`, `planning-adapters/src/checkpoint-store.ts`, `apps/planning-lab` | checkpoint with outbox | start, approve, revise, cancel, the resumable run | provider calls between load and commit; a store without a lock |
| Workspace adapter, tool policy, model providers, task context, planning agent, runtime configuration, contracts, renderers, evals | little or none | file and network access, parsing, text | otherwise pure |

How they interact: the lab (HTTP or CLI) loads a checkpoint, checks that the
caller saw its revision, performs a side effect if the action has one
(verification, rollback), and commits the mutated aggregate through
`executeDevelopmentCheckpointCommand`, which looks up the request's receipt,
applies the aggregate's command and commits by compare-and-swap on the revision.
Each commit adds one event to the outbox in the same record. A publisher drains
the outbox. Planning hands development a start envelope; later planning
revisions reach a run through `markPlanningRevision`.

What makes each part correct:

- *Aggregate*: work respects dependencies; what is reported completed was proved
  and is still proved; gates cover completed work; at most one agent of a task
  is live; stale or cancelled runs stay quiet; the scheduler never strands a run.
- *Store*: whole commits only; no lost update; each request applied once; events
  delivered in order, none lost; published in the end.
- *Recovery and page*: the journal is true; no run is completed without patch,
  verification and gate; a workspace that is not the recorded one has a reason;
  no gate is lost.
- *Verification and repair*: an interrupted command never passes; repairs are
  bounded and answer distinct failures; the author of a patch is on record; the
  executor comes to rest.
- *Patches*: all operations or none, or an explicit conflict.
- *Planning*: no envelope without current approvals of the exact versions in it;
  every commit is one command on what was stored; an approval is for the version
  the user named; the run never waits for what cannot come.
- *Graph*: the two validations agree with what a run needs.

`PROJECT.json` lists every component with its status and every hazard at its
line.

## Modules

| Module | What it is |
|---|---|
| `DevelopmentStatus` | status sets and transition tables shared by the development modules |
| `DevelopmentRun` | the development aggregate |
| `DevelopmentDriver` | the sequential loop that drives a run to its end |
| `VersionedStore` | what a checkpoint store promises: the in-memory store |
| `CheckpointStore` | the file store, its writers and publishers, crashes |
| `PatchTransaction` | the patch manager among user edits, failing writes and crashes |
| `DevelopmentLab` | page commands, executor and recovery over one checkpoint and one workspace |
| `RepairLoop`, `ModelRouting` | verification with its command runner, the repair session, model calls and fallbacks |
| `PlanningAggregate` | the planning commands, as functions and as actions |
| `PlanningDurable` | the planning page's handlers and the resumable run over the store |
| `ExecutionGraph` | a plan through both validations into a run |
| `DevelopmentRunProofs`, `CheckpointStoreProofs`, `PatchTransactionProofs`, `DevelopmentLabProofs`, `RepairLoopProofs`, `PlanningProofs`, `PlanningDurableProofs`, `ExecutionGraphProofs` | theorems |
| `MC...` | instances for TLC |

Composition: `DevelopmentDriver` restricts `DevelopmentRun`; `CheckpointStore`
implements `VersionedStore`, and `DevelopmentLab` builds on that promise instead
of the files; `DevelopmentLab` uses the tables of `DevelopmentRun` and reduces
its aggregate to one task, one phase and one gate, and a patch transaction to
its outcomes (complete, torn, refused) that `PatchTransaction` justifies;
`PlanningDurable` instantiates `PlanningAggregate` with the stored value as its
variable, so that its refinement says every commit is a planning command;
`ExecutionGraph` shows that an accepted plan meets `PlanAssumption` of
`DevelopmentRun`.

### DevelopmentRun

One action per command of `aggregate.ts`. The status tables of
`state-machine.ts` are the functions `RunTransitions`, `PhaseTransitions`,
`TaskTransitions`, `AgentTransitions` of `DevelopmentStatus`; the `update*Status` helpers silently drop
a move the table does not list, which is `Moved`. Helpers that the code threads
an aggregate through (`activatePhaseAndTask`, `activateNextPhase`,
`progressAfterTaskCompletion`) are operators on a *schedule*, the record of the
run, current pointers, phase and task statuses; the action adopts the schedule
they return.

A rejected command and a replayed request change nothing but the receipt map,
so they are stuttering steps. The plan is a set of constants whose assumptions
(`PlanAssumption`, `ContentAssumption`) are what `validateDevelopmentGraph` and
`createDevelopmentAggregate` guarantee: ranks are a topological order, and
dependencies point to the same or an earlier phase. `dependentTaskIds` is
the least set containing the roots and closed under "depends on a member",
written without recursion so that it can be reasoned about.

An evidence record keeps its step, model snapshot, outcome, artifact and
the workspace it was taken on. `workspace` stands for the pair (`workspaceHash`,
`patchJournalEntryId`), which the code always compares together. Outcomes are
passed, a plain verification failure, and a failure `beginRepair` refuses.
Artifacts matter because a repair's failure fingerprint contains the artifact
hash.

`transitionTask` also accepts `assembling_context` for a completed task, in any
run status, a cancelled or completed one included, and resets nothing: the task's
evidence stays valid, gates stay confirmed, its phase, its run and its dependents
stay as they are, and the next completion may use the old evidence again. No
caller in the repository asks for it. The action takes it, and the history
variable `reopened` holds the tasks taken up this way until they complete or are
invalidated. `DependenciesRespected`, `ConfirmedGateCoversPhase`,
`CompletionIsEarned`, `CancelledRunQuiesces` and `LeavingCompletedInvalidates`
name these tasks as the one exception, and so say that nothing else takes back
completed work silently.

### DevelopmentDriver

The loop of `gate-g3-closure.test.ts` (begin the selected task, patch, verify,
record, complete), with the user confirming gates. It restricts `DevelopmentRun`
to commands that succeed, so its liveness property speaks of the scheduler. Ids
are issued in order, as the loop's counters do (`Earliest`).

### VersionedStore and CheckpointStore

`VersionedStore` is the promise: a record that changes in whole commits, each
request applied once, one event per commit, first deliveries in commit order.
`InMemoryDevelopmentCheckpointStore`, where a commit is one synchronous step,
keeps it by construction.

`CheckpointStore` is the file store used by several processes. Every await is a
step boundary:

| Steps | Code |
|---|---|
| `Bind` | the handler (or bootstrap) loads the checkpoint; the loaded revision becomes the expected one |
| `Replay`, `Mutate` | `executeDevelopmentCheckpointCommand` loads again, returns the stored receipt or computes the next value from its copy |
| `Lock`, `Busy` | exclusive creation of the lock file |
| `WriteTemporary`, `Conflict` | the read under the lock, the revision check, the sequence check, the synced temporary file |
| `Rename`, `WriteFails` | the rename, or its failure |
| `Unlock`, `UnlockAfterMark`, `CloseFailsAfterMark` | the `finally` block: the unlink, an unlink that fails and is swallowed, or a `close` that throws before it; in the last two the lock file stays behind |
| `ReadRevision`, `ReadOutbox`, `Publish`, `PublishFails`, `Drained` | `publishPendingDevelopmentEvents` with its two separate reads and the publish/mark loop |
| `Crash` | the process dies anywhere in a call; its memory is gone, the record and lock files stay; it may run again |

A checkpoint value is abstracted to the sequence of requests applied to it,
which is also the key set of its receipts; event *i* is the one emitted by
commit *i*. The history variable `orphaned` says that a lock file was left behind,
by a crash or by a call that ended without removing it. `ImplementsVersionedStore` says that `file` and `delivered` behave as
`VersionedStore`.

### PatchTransaction

A call of `PatchTransactionManager` is a walk over the changes of one patch.
`apply` walks forward, replacing `before` by `after`; its compensation and the
user's `rollback` walk back, replacing `after` by `before`. `call` is the running
call: its kind, position and stage.

| Steps | Code |
|---|---|
| `Apply`, `Rollback` | the call with its early checks (remembered key, journal status, lease) |
| `ReadNext`, `Conflict`, `StartWriting` | the preflight, one file read per step; then the lease is taken |
| `Compare`, `Deny`, `Write`, `WriteFails` | `NodeWorkspaceAdapter.patch`: comparison and write are two file accesses; either may fail |
| `Reserve`, `Release` | the lease a task holds across calls |
| `Edit`, `Crash` | the environment: the user's editor, the end of the process |

The manager is synchronous, so calls do not overlap each other; edits fall
between any two steps. `touched` and `raced` are history variables that say which
files the user edited during the call and whether an edit hit the window between
comparison and write. `Torn` is what a write leaves that does not finish: the
adapter truncates or creates the file before it writes.

### DevelopmentLab

The state is the checkpoint (`store`: revision and value), the contents of the
workspace (`disk`) and what each handler has in memory (`copy`, `output`). The
value keeps run, phase and task status, the safe boundary, the pending
operation, the journal, the receipts and the last audit. Contents are numbered:
`Original`, then one per patch, and `Mixed` for anything else. A patch
transaction looks only at the files of its patch, so it may also apply beside
changes of others (`AppliesTo`), which leaves `Mixed` (`Changed`). The history
variable `origin` says what brought the workspace where it is since its hash was
last recorded.

| Steps | Code |
|---|---|
| `Bootstrap`, `Create`, `StartDevelopmentRun` | `bootstrapAndStartDevelopmentFromPlanning` |
| `TakeWork`, `Work`, `Prepare`, `ApplyPatch`, `Report`, `ReportOther` | an executor: `prepareDevelopmentOperation`, the side effect, `executeDevelopmentCheckpointCommand` |
| `Serve` | a page command loads the checkpoint and checks its binding |
| `ActVerify`, `ActRollback`, `ActThrows`, `CommitAction` | the action port, then the commit |
| `CommitControl`, `CommitGate`, `CommitRefused` | pause, cancel, gate, and answers that change nothing |
| `Load`, `CommitRecovery`, `ReplayRecovery`, `ResumeRun` | resume: load, recovery audit or, if the key has a receipt, the checkpoint as it is; then (`Answered`) the control command under a key of its own (`controls`) if the run is paused and unblocked |
| `Crash`, `Edit` | a handler dies between any two steps; the user edits files |

The executor is not part of the repository, which exports its steps and
exercises them in tests; several may be at work, as several processes can.

`DriftIsExplained` says that whenever the workspace is not the recorded one, the
change that made it so is known and is one of five: a prepared patch still to be
recorded; an edit, a torn write or a change beside one; a patch written after its
operation was recorded or dropped; a patch whose operation a gate or a cancel
command dropped; a rollback whose commit did not come. Each cause is tied to the
`origin` of the present contents, so an earlier gate or cancellation excuses no
other drift. What it excludes is a commit that leaves the checkpoint with the
hash of an older observation and nothing that accounts for the difference. The
windows of the fourth and fifth cause (a command that drops a prepared operation,
a side effect before its commit) are named, not excluded: the code has them.

`LabAssumption` says that no idempotency key is used both for a resume and for
an action of the page: the receipt of a key holds the digest of its command, and
another command under that key is refused.

### RepairLoop and ModelRouting

`place` is where the one executor is. A verification goes through `Steps`; a
command is a child with timer, exit code and possibly a descendant that holds
its output. `FinishVerification` records evidence and the attempt's outcome,
`RequestRepair` is `requestRepair` with its stop reasons, `Invoke`,
`PrimaryReturns` and `FallbackReturns` are the three parts of
`ModelRoutingService.invoke` around its awaits, `SavePolicy` may come between
any two. Steps outside `Optional` are required: a verification passes when all
required steps do (`ManifestStatus`), whatever an optional one says, and
`VerifiedByEvidence` asks for no more and, in addition, that no step failed.
`ComesToRest` counts as rest the states in which only the outside can go on: a
descendant that holds the output of a command, a user who is asked, a session
that is `stuck`. It shows that timers, signals and loops end, not that those do
not occur. `ModelRouting` holds the pure parts: selection, capabilities, failure
codes, and when a fallback is offered.

### PlanningAggregate and PlanningDurable

A planning command is an operator from one aggregate to the next, since the
code applies it to a loaded copy; the actions of `PlanningAggregate` apply it to
the one aggregate. A document's version id, number and hash are one record; two
handlers that generate a version of the same number write different texts.

`PlanningDurable` has a program counter per handler. `Submit` and `StartRun` are
requests; `CheckApproval`, `CheckKnownRevision`, `CheckMutation` and `CheckFails`
are the controller's and the runner's checks on a loaded checkpoint; `Load`,
`Turn`, `PassGate`, `Stop` are the runner's loop, `ReadToCommit`, `WriteCommit`,
`Conflict` its commits, `Publish`, `WriteMark`, `MarkDone` the outbox. `Fail` may
end a handler at any place: a provider, a publication or the process failed.
Every commit has an event number of its own; the code's event id is made of run,
revision and status and may repeat for a return that is recorded twice. Two
such events announce the same state, so none of the properties tells them apart.
`Exclusive` tells the in-memory store (read and write in one synchronous step)
from the file store (awaits in between).

### ExecutionGraph

A plan is drafted by revisions, approved if `validateExecutionPlan` accepts it,
started if `validateDevelopmentGraph` does, and completed task by task. The
algorithms are translated with their order of traversal and compared with
reference definitions by sets (`IsAcyclic`, `OnCycle`, `IsExecutable`).
`CyclicNodes` is the recursive `visit` as a recursive function of the node, the
path and what was seen so far; the loop over a node's dependencies takes them in
the order of their numbers, where the code takes them in the order of the plan.
User gates are represented by their ids: development refuses two of one id,
planning does not compare them. Issues that both validations report alike (phases
and tasks of one id, a task not listed by exactly its own phase, unknown phases)
are left out; a task's unknown dependency is in, since the walks over tasks meet
it.

## Runs

| Run | Configuration | Question | States |
|---|---|---|---|
| `planning` | `MCPlanning.cfg` | does every commit take effect as one planning command on what was stored, is every event kept, is authority grounded, can generation always proceed | 549,000 |
| `planning_unseen` | `MCPlanningUnseen.cfg` | expected violation: an approval for a version the request did not name | |
| `planning_lost` | `MCPlanningLost.cfg` | expected violation: the file store drops a commit | |
| `graph` | `MCExecutionGraph.cfg` | the helpers against their references; the two validations agree up to the phase rule and gates of one name; approved plans can be carried out, accepted ones are never stuck | 412,000 |
| `pair` | `MCDevelopmentRun.cfg` | eight invariants and one action property of the aggregate on two phases, a dependency across them and a gate | 975,000 |
| `driver` | `MCDevelopmentDriver.cfg` | serial work and completion on a forked plan with two gates | 1,400 |
| `store` | `MCCheckpointStore.cfg` | type, at-most-once application, outbox order, refinement of `VersionedStore`, publication unless a lock file stays behind | 27,800 |
| `lab` | `MCDevelopmentLab.cfg` | is the journal true, is a difference between checkpoint and workspace explained, is nothing undone, is completion on record | 2,417,000 |
| `gate_lost` | `MCDevelopmentLabGate.cfg` | expected violation: pause, verify and resume lose a gate | |
| `repair` | `MCRepairLoop.cfg` | repairs are warranted, verified by evidence, their author named; every step uses up some of a bounded amount of work; the executor comes to rest | 400,000 |
| `patch` | `MCPatchTransaction.cfg` | what is reported is what happened to the files; edits survive | 1,001,000 |
| `patch_torn` | `MCPatchTorn.cfg` | expected violation: a torn file behind a reported rollback | |

Deadlock checking is off everywhere: runs end (completed, failed, cancelled), the
ids of agents and evidence run out, requests are finite, no patch need be
applicable, and revisions and versions are bounded.

### Bounds

- `pair`: two models (a rerun needs another one; a third would only repeat the
  second's role after a return to the first), three agents (begin, rerun and rerun
  again) and two evidence ids (evidence for both tasks, or for one before and
  after an invalidation or a reopening), one workspace, one repair attempt. This is
  enough for a rerun of the first task while the second is at work or done, the
  case every invariant is about. Tasks with several steps and evidence from
  several workspaces are covered by the theorems, which hold for every plan.
- `driver`: four tasks, three phases; one phase has two independent tasks and
  two gates, two phases depend on it. Exactly as many agents and evidence ids
  as the plan needs.
- `store`: two requests and two writers (any two processes may race, also on
  the same request), one publisher, one crash, and any number of locks that are not
  removed. More publishers are covered by
  `OrderedOutbox` and `Refinement`.
- `lab`: two handlers at a time, each key used by whoever repeats it, one patch,
  seven commits: enough for a start, a prepared and reported patch and three
  commands after it, in any order. A repair's second patch would need four more
  commits; the theorems of `DevelopmentLabProofs` cover it. `gate_lost` has one handler and nine commits.
- `repair`: a command and two manual steps, the last one optional, three outputs, three attempts (two that
  fail differently and one that repeats), three profiles of which one has too
  small a window, two policies that name each other's choice as fallback.
- `planning`: two handlers, one request of each kind (an approval per document,
  a return to the first and to the second, a cancellation) of which three are
  made, two versions per document, ten commits. A run from start to envelope
  takes nine. The two violation runs ask fewer kinds.
- `graph`: two phases, three tasks, four dependencies, an unknown task id: cycles
  of every length, cycles entered from outside, two cycles sharing a node; two
  gate names and up to two gates, so that they may clash.
- `patch`: three files and a patch that updates, creates and deletes, so that a
  failure can strike with none, one or two changes to undo, of every kind; a
  repair of the same task and a patch of another one for the lease and for
  stacked journal entries; two contents; two edits, enough for one in the
  preflight and one in the walk or its compensation; one crash.

The type invariants of `DevelopmentLab`, `RepairLoop` and `PatchTransaction` are
proved for every instance (`TypeCorrect`) and are not repeated in their runs.

Symmetry (of ids, gate names and handlers) is used in runs without liveness properties.

### Fairness

- `DriverSpec`: `WF(Drive)`. The loop is one sequential program that issues its
  next command as soon as the previous one returned.
- `FairSpec` of the store: weak fairness of the steps inside a call (an async
  function that has started runs on), including that publication is attempted
  again and again, as the at-least-once design expects from its caller, and
  strong fairness of `Publish` and `Rename`, meaning that the transport and the
  file system do not fail for ever. Nothing forces a writer to start a call or
  a process to crash or not to crash.
- `FairSpec` of the repair loop: weak fairness of the executor's own steps, of the
  timers and of a close event whose streams are free. Nothing is assumed of a
  command, its descendants, the user or the moment a policy is saved. A model
  call returns because its adapter aborts it after a timeout.

### What the expected violations show

- `gate_lost`: `controlDevelopmentRun` pauses a run whose task is verifying; the
  page offers verify for every verifying task. Completing the task moves the
  phase to `awaiting_gate`, but the run's own move to `awaiting_user_gate` is
  dropped, since the table of `paused` does not list it. After resume the run is
  `running` and `confirmPhaseGate` refuses the gate from then on. ADR 018:48
  restricts pause and resume to safe boundaries. One user, no crash, no race.
- `planning_unseen`: the controller compares the version and hash of an approval
  with one load; the runner loads again and approves what is current then. ADR
  010:17 promises that stale bindings are rejected.
- `planning_lost`: `FileTransactionalCheckpointStore` reads, compares and renames
  without a lock, also when it marks an event; ADR 009:21 promises a conflict
  instead of a silent replacement.
- `patch_torn`: the change whose write threw is not among the applied ones, so
  compensation leaves its torn file, and the result says rolled back. ADR 016:62
  rules out a partially applied patch without notice.

Observations that no run reports as a violation: a crash between creating and
removing the development store's lock file, a failing unlink of it or a failing
close before that blocks every later writer (`EventsPublishedUnlessOrphaned`
states exactly this exception); `transitionTask` takes up a completed task again
without resetting anything that rests on it; planning approves a plan with two
user gates of one id, which development refuses; planning approves
a plan whose phases are not listed in an order of their dependencies although no
order of its tasks carries it out (the condition of `ApprovedIsExecutable`), and
development refuses it at its start; a rolled-back, failed or blocked task cannot
be retried, because `retry` asks `transitionTask` for a target it refuses; a
repair attempt whose model call or patch failed stays proposed, and its session
can never be asked again (`stuck`).

## Proofs

`DevelopmentRunProofs` proves for every plan that satisfies the two
assumptions, and any number of models, agents and evidence ids:

| Theorem | Argument |
|---|---|
| `TypeCorrect` | inductive as it stands, with lemmas on what each scheduling operator returns |
| `StaleTasksStopTheRun` | strengthened by "the run is not validating_input" (`StaleInv`): tasks turn stale only together with the run, and no command accepted in a stale run takes the run out of stale except to cancelled |
| `DependenciesAreRespected` | `DependencyInv` adds typing and the stale invariant; a step either moves one task whose dependencies it checked, or takes a set closed under dependents out of progress, so nobody who remains active loses a dependency; a completed task taken up by `transitionTask` stays counted while it is in `reopened` (`CompletedOrReopened`) |
| `CompletionsAreEarned`, `ConfirmedGatesCoverTheirPhase` | one invariant, `CompletionInv`, for phases, run and gates: a forward step keeps every task completed or reopened (`WorkDone`), an invalidating one takes back the phases and gates of all it affects |
| `LeavingCompletedTakesItsEvidence` | the same split of steps; the one forward step out of completed is the reopening, which the property describes |
| `CompletedTasksHaveEvidence` | `EvidenceInv` adds that evidence ids are unique, without which a later record under a submitted id could contradict an earlier one |

The recurring step is `StepKinds`: every step is a forward step or invalidates
`DependentTasks(roots)` for some roots. `DependentTasks` being closed downstream
(`AffectedClosedDownstream`) is what makes the invariants survive reruns.

The same module proves who works on a run.
`OnlyTheLatestAgentLives` (`OneLiveAgent`) rests on `AgentInv`. Two facts have to
be added. A pending or ready task has no live agent, or `beginTask` would leave
a second one behind. The latest agent of a task that has produced a change is
past ready, since the status table lets a ready agent neither complete nor fail
and `beginRepair` could then not end it. `CancellationQuiesces`
(`CancelledRunQuiesces`) needs only typing: cancelling is the one way into the
status (`OnlyCancelCancels`), ends every agent and every task without a patch,
and what a cancelled run still accepts starts no agent, readies no task and begins
none but reopened ones (`IssuesNothing`).

`DriverWorksSerially` (`SerialWork`) is about the driver. The aggregate alone
does not promise serial work, since a user's rerun can reset one task while
another is at work. Every step of the driver is a command of the aggregate
(`DriveCommands`), so `CompletionInv` holds of it; with it, `DriverInv` says that
a task at work belongs to a running run, in which the scheduler makes the next
task ready only when the last one is completed. `DriverDrivesARun` says the same
of whole behaviours: `DriverSpec` implies `Spec`, so all theorems above hold of a
driven run.

`CheckpointStoreProofs` proves for any sets of writers, publishers and requests
and any bound on the crashes, with locks that may fail to be removed at any time:

| Theorem | Property |
|---|---|
| `Refinement` | `ImplementsVersionedStore`: every behaviour of the files is one of `VersionedStore` |
| `NoDoubleApplication` | `AppliedOnce` |
| `OrderedOutbox` | `OutboxInOrder` |
| `MutualExclusion` | `LockIsExclusive`, which the other three rest on |
| `TypeCorrect` | `TypeOK` |

None of these properties is inductive: the file says nothing of what the
processes are about to do to it. The invariant `Inv` adds what each process
knows (`ProcessOk`). A writer's copy whose revision is the file's has the file's
log, so its request is still unapplied when the revision check passes. A
publisher's pending events are preceded by pending or published events only, so
the first pending one is the next to deliver or has been seen. What the holder
of the lock wrote to its temporary file is the successor of the file, because
only the holder renames. A bystander keeps what it knows across a rename
(`RenameBystander`) since the revision has grown past the one it expects. With
`Inv`, a writer's `Rename` is `Commit`, a publisher's is `MarkPublished`, a first
delivery is `Deliver` and all other steps stutter (`NextInv`).

`PatchTransactionProofs` proves, for patches of any length over any files:
`AppliedInWhole` (`DoneIsWhole`), `UndoneInWhole` (`UndoneIsGone`), `EditsAreKept`
(`EditsSurvive`) and `TypeCorrect`. The outcome of a call is about all its files
at once, so the invariant (`Progress`) splits them at the position of the walk:
files ahead are as the walk expects them, files passed as it leaves them, except
those the user touched and, in an undo, the one whose write failed. A change
moves one file from one part to the other, which is where distinct paths
(`PatchAssumption`, checked by `apply`) are needed; turning round at a failure
exchanges the two parts.

`PlanningProofs` proves `PlanningIsSound` without any assumption: through any
sequence of planning commands, the aggregate is well typed, every approval is
of the current version, a valid document rests on valid current ones, and the
start envelope binds approved current versions. Each command operator maps a
sound aggregate to a sound one (`ReturnIsSound`, `RecordIsSound`, ...). The parts
need each other: an envelope stays approved because approvals stay current, and
those stay grounded because a new version withdraws what rests on the old one.

Soundness includes what a generating status promises: the documents it rests on
are approved (`Standing`). That is no consequence of the aggregate's table alone,
so recording a version and returning to a document carry it as a hypothesis.

`PlanningDurableProofs` carries this to the store, for any handlers, requests,
versions and commits.

| Theorem | Argument |
|---|---|
| `TypeCorrect`, `StoreClaimsNoMore` (`StoredAuthority`), `GenerationNeverWaits` (`GenerationCanProceed`) | `Founded`: the stored value and every value a handler holds in memory, is about to write or has read, are sound. It needs nothing of the store: a handler that overwrites another one's commit replaces a sound value by a sound one. `assertMutationBinding`, which accepts a return only to a valid document, discharges the hypothesis of `Standing` |
| `EventsAreKept` (`EventsKept`), `StoreRunsPlanning` (`ImplementsPlanning`), `AnswersAreKept` (`AnswersStay`) | `Ordered`, under `Exclusive`: at most one handler is between a read and its write, what it read is still what is stored, and a handler's copy whose revision is the stored one holds the stored value or the result of one command on it. So each write that changes the value is a planning command, and a mark removes only an event that was delivered |

`Exclusive`, the hypothesis of the last three, is what distinguishes
`InMemoryTransactionalCheckpointStore` from the file store, where a read and the
write after it are separate awaits; `planning_lost` shows `AnswersStay` violated
without it. The first three hold for both stores.

`DevelopmentLabProofs` proves, for any handlers, keys, patches and commits,
the four properties of the run `lab` and its typing:

| Theorem | Property |
|---|---|
| `TypeCorrect` | `TypeOK` |
| `JournalTellsTheTruth` | `JournalIsTrue` |
| `CompletionIsEarned` | `CompletionIsOnRecord` |
| `DriftIsAccountedFor` | `DriftIsExplained` |
| `CommitsAreKept` | `NothingIsUndone` |

None is inductive, because a commit writes what some handler computed earlier.
The invariant has a part for the checkpoint (`Sound`: a prepared operation
starts from the recorded contents, a completed run is earned, what is recorded
is on the journal), two for the workspace (`Workspace`: patches lie over written
patches; `Explained`: what each `origin` says of the contents, and that none is
lost) and one for each handler (`Local`). Its core is that a copy with the
store's revision is the store's value (`Loaded`), and that a handler about to
record a hash it took has the hash of the workspace, as long as its revision is
current and nothing changed the workspace since the last record
(`SeesWorkspace`). Each commit is then a `Step` from the stored value to a sound
one in which nothing is undone, and it `Accounts` for the workspace: it records
what is there, drops a prepared operation under a gate or cancel receipt, or
leaves hash, operation and origin as they were. The other handlers keep what they
know across a step: their revision is behind, and journals only grow.

`RepairLoopProofs` proves, for any steps, attempts, profiles and policies:

| Theorem | Property |
|---|---|
| `TypeCorrect` | `TypeOK` |
| `AttemptsAreWarranted` | `RepairsAreWarranted` |
| `VerifiedIsEvident` | `VerifiedByEvidence` |
| `AuthorIsTrue` | `AuthorIsNamed` |
| `LoopIsBounded` | `WorkRunsDown` |

The three invariants need each other and three facts on where the executor is. `Evidenced`: a
draft passed only if its timer had not fired, and a failed one has a category,
or an attempt could answer no failure. `Placed`: a command runs only while steps
are left, a verified session has ended, and there is a repair under way when a
model is called. `Routed`: a primary is called for the profile selected and
found capable, a fallback only for a confirmed outage of another profile. All
three compare with the policy the call started with (`call.policy`), so
`SavePolicy` disturbs none.

`LoopIsBounded` is the part of termination that needs no fairness. `Work` counts
what the executor may still do without the user: for each attempt left a model
call and a verification, and what is left of the one under way, down to the
timer of its command. Every step of the executor, a command, a timer or a
provider makes this natural number smaller (`NextSpends`); opening an attempt
pays for the call and the verification it brings with one attempt of the budget
(`RequestSpends`), and no step lowers the number of attempts made. Only the user,
where the executor waits for one (`thrown`, `review`, `paused`), adds to it. Two
more facts on the command are needed: it exists only while the executor waits
for it (`Idle`), and nobody else is known to hold its output while it runs
(`Alone`), or a child that ends could leave as much to do as before. What TLC
adds with `ComesToRest` is that these steps do happen.

`ExecutionGraphProofs` proves, for plans of any size:

| Theorem | Property |
|---|---|
| `HelpersAreCorrect` | `HelpersAreExact` |
| `AcceptedPlansAreOrdered` | `AcceptedPlanIsOrdered` |
| `AcceptedPlansNeverStop` | `RunIsNeverStuck` |
| `ApprovedPlansAreExecutable` | `ApprovedIsExecutable` |
| `AllCyclesAreFound` | `CyclesAreFound` |
| `ValidationsAgree` | `RefusalsAreExplained` |

The loops of the code are functions of the number of passes. Neither the
existence of such a function nor induction over the passes is taken from the
library, whose theorems have operator parameters: both are stated over sets
(`Iterates`, `Induct`) and follow from every nonempty set of naturals having a
least member. What a loop computes is then an invariant of its passes: the
stable order never holds a node twice or before its dependencies (`Sorted`), an
ancestor comes earlier in the order of the phases (`AncestorsComeFirst`), the
walks over tasks grow until a pass adds nothing, which happens within as many
passes as there are tasks (`Grows`). A run is never stuck because the first task
left, of the first phase with any, can be completed (`SomeTaskIsNext`); the
inductive invariant carries the orders an accepted plan has (`Orderly`), and
those an approved one has (`Listed`), through the steps that no longer revise it.

The depth-first search of `cyclicNodes` takes more. That its recursion computes
anything is shown first (`VisitsAre`): a visit goes deeper only from a node that is
not on its path, so the set of nodes on the path grows by one each time and has at
most as many members as there are tasks (`DeeperIsLonger`). `DeepestFirst` is the
induction over the visits that follows from it. What one visit owes its caller is
`Delivers`: it forgets nothing, it reports only nodes of cycles, and while nothing
has been reported the nodes visited are `Clean`, that is, closed under
dependencies and without a nonempty subset each of whose members depends on
another one. Visits that meet their path (`ClosingDelivers`) and visits that go
deeper (`DeeperDelivers`) both deliver. When the walk is over all nodes have been
visited, so they are clean, or something was reported (`WalkFinds`). The
unreachable tasks need no search: a task that is not reached depends on another
one that is not, and among finitely many such tasks one from which fewest can be
reached is on a cycle (`CycleAmong`, `UnreachableIsDownstream`).

`ValidationsAgree` compares the two tests for cycles, the search of planning and
the sort of development: each is exact, so an approved plan always has the order
development asks for (`SearchAndSortAgree`), and the phase rule and gates of one
name are the only grounds on which it can be refused.

Only model-checked: the liveness properties `RunCompletes`,
`EventsPublishedUnlessOrphaned` and `ComesToRest`, since liveness under fairness
and ENABLED are beyond the prover. Every invariant and action property of a
passing run, and both refinements, are proved.

## Not modelled, and why

Hashes, schema parsing, redaction and rendering are data transformations that no
property here depends on. Path policies, prompts and HTTP framing are pure
checks or I/O. Timestamps and the transition history are never read by the
aggregate's decisions. Planning and context assembly agents, renderers and evals
transform one input without state between calls; in `PlanningDurable` a
generation yields a document or fails its handler. Coverage, waivers and
questions of a plan are single-pass checks of one document.
`runAutoApprovedStandalonePlanning` approves its own documents in memory. Model
policies are one value that changes at any time (`SavePolicy`); the lost update
of `FileDevelopmentModelPolicyStore.save` is the one `planning_lost` shows, and
the hazard of that run names it.

## Plan

1. Done: the development aggregate, its driver and their theorems.
2. Done: the checkpoint store, its refinement and their theorems.
3. Done: patch transactions and their theorems.
4. Done: the lab with recovery; the repair loop with routing and the command
   runner; the graph; planning, with the theorem about its aggregate.
5. Done: `OneLiveAgent` and `CancelledRunQuiesces`.
6. Done, proofs: `PlanningDurable` with its refinement of `PlanningAggregate`,
   `DevelopmentLab`, `RepairLoop`, the driver's `SerialWork`, the graph.
7. Done, proofs: `CyclesAreFound`, the agreement of the two validations, the
   bound on the repair loop's work, the driver as a restriction of the aggregate.
8. Next, models: the driver with reruns (does a reset task always get its turn
   again), and a lab with two tasks, so that a gate is followed by work.
