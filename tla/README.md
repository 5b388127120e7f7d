# A verification development for RADJAX-Student

RADJAX-Student trains student models from recorded artifacts: a generic
learning loop drives a JAX step executor, behaviour runs train it on a canonical
schedule, and checkpoints let an interrupted run be taken up again. This
directory holds TLA+ models of the parts of it that keep state over time, the
TLC runs that check them on small instances, and TLAPS proofs for every
instance. Paths below are relative to the repository (`loop.py` without a
directory is `src/radjax_student/steps/loop.py`, and so on where the name is
unique).

## 1. Inventory

The program is a Python library that runs in one process and one thread. What is
hard about it is not parallelism but *order*: protocols of callbacks that may
raise at any point, state that is advanced by one component and reported by
another, checkpoints written in several steps by processes that may die, and
caches that outlive the step that filled them. Savers of different processes may
meet in one directory.

| Component | State | Operations | Interacts with |
| --- | --- | --- | --- |
| Generic learning loop (`steps/loop.py`) | adopted learning and optimizer state, counters, receipts, event trace | `run_learning_loop`, `validate_learning_step_execution` | draws from a batch source, calls a step executor, a checkpoint callback, and the hooks at seven events |
| Hook dispatch (`learning/hooks.py`) | the set of disabled hooks, carried by the loop | `dispatch_hooks` | called by the loop; calls `on_event` of each hook |
| JAX step and lifecycle (`steps/jax_loop.py`, `jax_step.py`) | the lifecycle (parameters, optimizer arrays, learning state, keys), the step kernel | `JaxLoopExecutor.__call__`, `execute_jax_learning_step`, `with_checkpoint` | is the loop's executor; runs through `execute_function`; saved by checkpoint v3 |
| Prepared execution (`runtime/execution.py`, `runtime/registry.py`) | mutable executable handles, a bounded cache | `prepare_execution`, `execute_prepared`, `execute_function`, the cache's `get` and `put` | called by the JAX step; calls the backend |
| Behaviour continuation (`behavior/continuation.py`) | the run state (cursor, steps), the ledger of completed units, the envelope on disk | `run_behavior_continuation_v1`, save, load, restore | calls a step callback and a checkpoint callback of its caller; nests a v3 checkpoint in its envelope |
| Checkpoint v3 (`checkpoints/v3.py`) | a directory on disk | save, load, their identity checks | saves a lifecycle; loaded by restores |
| Checkpoint v2 (`checkpoints/learning.py`) | a directory on disk, written in place | save, load | saved and restored by the synthetic smoke |
| Runtime state files (`runtime/state.py`) | two files in a directory, manifest last | save (with or without overwrite), load, restore | runtime smoke and portability |
| Behaviour passes, evaluation, materialization, policies (`behavior/`) | none; what they return names what it came from (checkpoints, bindings, reports) | the split into partitions, the batches, the corridor and the exemplar pass, the held-out evaluation | each takes what the one before returned, from a caller that may mix things up |
| Runtime backends (`runtime/registry.py`, `selection.py`, `lifecycle.py`) | the backends by id; per backend, a device for every context that was opened | register, unregister, select, open and close a context, place a step | a lifecycle is bound to a backend; smokes share the backend's contexts with it |
| Runtime smokes (`runtime/portability.py`, `smoke.py`) | none that stays | six phases on an opened context, a teardown, a receipt | use the selection, the backend's contexts and runtime state files |
| Other registries (`architecture/registry.py`, `objectives/registry.py`, `optimizers/registry.py`) | dictionaries of plugins | register, get | assembly |
| Assembly, models, contracts (`learning/`, `contracts/`) | frozen records | constructors that validate | everything |
| Run report, telemetry (`learning/run_report.py`, `telemetry.py`) | none | projections of a result | `run_learning_loop` |
| Artifacts (`artifacts/`) | none: read-only views of Tome artifacts | admission, compatibility | materialization |
| Architecture, objectives, optimizers, hf | none: numerical functions | forward, loss, update, projection | JAX step |
| CLI, reports, debug, legacy, acceptance gates, `validation/`, `scripts/` | none of their own | render and drive the above, record evidence | everything |

What makes each correct, in one line:

* **loop**: state, steps and batches move together; the result and the event
  trace tell what happened; a passing run took every checkpoint that was due;
  the policy on failing hooks is obeyed at every event; it ends.
* **hooks**: order, disabling for good, blocking under fail-fast only; a failing
  hook never costs the caller the failure it was told of.
* **JAX step**: nothing of a rejected step stays; a run key is used for one step;
  what a checkpoint restores is what was saved.
* **prepared execution**: a step is never run by an execution compiled for
  something else; the cache stays within its bound without recompiling a working
  set that fits.
* **continuation**: every unit exactly once and in order, whatever interrupts the
  run; a bounded loss; the resumed run ends where the uninterrupted one does.
* **checkpoints, state files**: what a reader finds is whole; what was
  acknowledged stays.
* **passes and evaluation**: a report is about the run it names; what it held out
  was not trained on; rows, ids and coordinates name the same examples everywhere.
* **backends, smokes**: a lifecycle stays on the device selected for it; a smoke
  leaves nothing behind, and its receipt says what happened; what is selected
  serves the request, and only what cannot be served is refused.

The hazards, each at its line, are listed in `PROJECT.json`.

## 2. Modules

| Module | Models | Extends or uses |
| --- | --- | --- |
| `HookDispatch` | one call of `dispatch_hooks`, as operators | |
| `LearningLoop` | one invocation of the loop | extends `HookDispatch` |
| `TrainingLedger` | abstract: a learner is trained on a schedule in order, interruptions take it back to a saved training | |
| `Continuation` | the continuation runner, its caller, the envelopes | refines `TrainingLedger` |
| `PublishedStore` | abstract: a name is written once, whole, and not lost once acknowledged | |
| `CheckpointPublish` | write, sync, rename by racing savers, and the disk | refines `PublishedStore` |
| `StepReuse` | the executor's step kernel and the reuse cache | |
| `JaxTraining` | the loop over the JAX executor, its lifecycle, version 3 checkpoints and restores | |
| `RuntimeStateFiles` | saving, overwriting and loading a runtime-state directory | |
| `CheckpointV2` | in-place saves of a version 2 checkpoint, and the load and restore beside them | |
| `BehaviorBatches` | the split of a behavioural source, its batches and coordinates, as operators | |
| `BehaviorLineage` | corridor pass, exemplar pass and held-out evaluation under any caller | extends `BehaviorBatches` |
| `RuntimeSelection` | the selection of a backend and platform, as operators | |
| `RuntimeContexts` | registry, device contexts, lifecycles' steps and both smokes | extends `RuntimeSelection` |
| `MC...` | the small instances | |
| `...Proofs` | the theorems | |

Every component module has one action per operation or handler and its properties
at the end. The type invariants (`TypeOK`, `ContextsTypeOK`) are proved, as the
theorems `TypeCorrect`, `TypesHold` and `ContextsTypeCorrect`, and the runs do not
repeat them. Operators whose comment begins with
"Variant" are plausible mistakes in the definition that follows them; no
specification uses them. They are there to see that the property named for them
in `PROJECT.json` (under `mutants`) would notice.

### HookDispatch and LearningLoop

`Called`, `Failed`, `Stops`, `Escapes`, `Blocks` and `DisabledAfter` are what one
`dispatch_hooks` does with a choice of answers, one per hook: which hooks are
called, which fail, where `fail_fast` cuts the dispatch short, whether a
receipt's own validation raises, whether the loop gets blockers, and who is
disabled afterwards. `LearningLoop` has an action per lifecycle boundary
(`LoopStart`, `BatchReceived`, `StepStart`, `StepEnd`, `CheckpointEvent`,
`LoopEnd`, `Failure`), per answer of the source (`NextBatch`, `SourceRaises`), of
the executor (`StepReturns`, `StepRaises`) and of the checkpoint callback
(`CheckpointWritten`, `CheckpointRaises`). `pc` names the statement the run is
at. An executor may return any execution whose counters moved by a member of
`Advances`, or something that is none; `Valid` is
`validate_learning_step_execution`. Learning and optimizer states are their three
counters, because those are what the loop compares. A hook's three ways to fail
are one outcome, as in the code; `repeated_warning` is the answer its receipt
rejects.

### Continuation and TrainingLedger

`Call` is the caller entering `run_behavior_continuation_v1`, `StepReturns` one
turn of its loop up to the checkpoint callback, `WriteEnvelope` the callback,
`Boundary` the stop request with the result's own consistency check, `Complete`
the end. `StepRaises`, `SaveRaises` and `Crash` interrupt it; `Continue` and
`Restore` are the caller. `current` is the code's variable of that name, the run
state as it was last built; `index` and `segment` are `next_item_index` and
`segment_steps`. The learner is the sequence of units it was trained on and its
optimizer step. A caller that goes on after an exception with the state it holds
and the learner the callback has already advanced is not modelled: the
documentation asks for a restore.

`TrainingLedger` is implemented by the live learner (`applied`) and the
lineages in the envelopes (`saved`).

### CheckpointPublish and PublishedStore

A saver's directory is the parts written, those whose bytes are synced and those
whose directory entry is. The parent directory is `dest`, what it shows, and
`possible`, what it may show after a power loss: any of the entries it had since
the last sync of the parent. `PowerLoss` chooses one of them and, of its parts,
any set that has at least the synced and listed ones. `Raise` may happen in every
step of the `try` block (a full disk, the failing self-load of the sibling, an
interrupt that is an `Exception`); `Die` is the death of one process.
`settled` collects the names a save was acknowledged for.

### StepReuse

A lifecycle is its scopes and its *contract*, everything else a kernel closes
over. The identity of an execution is the kernel's contract and scopes and the
batch's shape. The handle of a prepared execution is represented by what it was
compiled for, so that a stale handle is visible. `Step` finds or builds the
kernel, `LookUp` is the cache's `get`, `Compile` and `Dispatch` are the backend,
`Dispatch` ends with the cache's `put`, and `Raise` may end the step anywhere.
`Restore` is `with_checkpoint`, called between steps: its identity checks are the
guard. The `OrderedDict` is a place number per identity.

### JaxTraining

The same loop, seen by the executor. `lifecycle` is `executor.lifecycle`: three
counters and the optimizer envelope's step, and for parameters, carry and
optimizer arrays the sequence of steps that made them, a step being its batch and
its run key. `loop` is what the loop has adopted (`Reported`). `Step` is
`JaxLoopExecutor.__call__` up to `accept_execution`, then the loop's own
validation, in that order; `StepFails` everything that may raise before
`accept_execution` assigns, `StepMismatch` the comparison of the learning states.
`CheckpointWritten` is the callback, which saves and may replace the executor's
lifecycle, as a comment in `__call__` allows; `CheckpointRefused` is the save's
check of the counters. Between runs the caller takes the result and may restore
(`Restore`); the source is then wherever the caller puts it, because a version 3
checkpoint holds no position. `Crash` is a new process, which assembles the same
request. Events, receipts and stop reasons are `LearningLoop`'s subject: a hook
here only may end a run at any boundary. `swapped` is history: the callback put
another lifecycle in place in this run. That the identity checks of a restore
pass is assumed; within one assembled request they do.

### RuntimeStateFiles

A saver is one `save_runtime_state` call and its caller's retry; `overwriting` are
the savers that pass `overwrite=True`. The directory is `exists`, whose content
each of the two `file`s holds, and `temps`, the temporaries in it. `Check`, `List`,
`Clear` and `Cleared` are `_prepare_destination`, split wherever another process
can come between; `MkDir`, `MakeTemporary` and `Replace` are the writes; `Raise`
and `Die` may end a save in any of these steps. `Open`, `ReadManifest` and
`ReadState` are a load. A digest is modelled by whose state it was taken of, so a
load fails exactly when the two files are of different savers. The model has no
power loss: nothing in this code syncs a directory, so that nothing is promised
after one.

### CheckpointV2

The directory is, per file, the save that last wrote it whole (`written`), and the
files opened and not filled (`torn`), because `write_bytes` truncates before it
writes. `BeginSave`, `OpenFile` and `FillFile` are `save_learning_checkpoint`: the
components in their order, the manifest last, in place. `SaveFails` is an exception
or the death of the process between any two of these; nothing is cleaned up, and
the next save writes over what is there. `ReadManifest`, `VerifyComponent` and
`ReadComponent` are `load_learning_checkpoint`, which digests all components and
then reads them all again; `Publish` is the end of the smoke's
`_restore_checkpoint`, after the constructor's check that the learning state and
the optimizer have the same step. What a save puts into a file is a name
(`Payload`), and different saves may put the same bytes there, which no digest
tells apart. One process saves at a time; a load may run beside it. `quiet`,
`since` and `settled` are history of the load: whether a file was written
meanwhile, what had been acknowledged when it began, and whether anything was
begun after that.

### BehaviorBatches and BehaviorLineage

`Split` is the policy of `policies.py`: `Allotted` is the split after each of the ids
in order, a recursive function;
`CorridorBatch` and `ExemplarBatch` cut a source into the batches of a partition,
and `Coordinates` and `LocalRow` are how `materialize.py` and `evaluation.py` name
what is in a batch, whose rows stay those of the whole registry while its ids are
those of its partition. `BehaviorLineage` is a caller with several sources that
calls the corridor pass (`RunCorridorPass`), the exemplar pass (`RunExemplarPass`)
and the evaluation (`Evaluate`) in any order with anything it holds: another
source's batch, another corridor's binding, a copy of a held-out batch with an
entry missing or twice. A call that raises the passes' own errors returns nothing
and changes nothing, so it is not a step; the one pass that gets past its checks
and then dies of an `IndexError` is (`CorridorPassDies`). Parameters are the
sequence of units they were trained on; the source's name stands for the digests
of the split and the materialization, which are functions of it. Epochs,
optimizer arrays and the layout of tensors are abstracted: a unit says only which
examples it held.

### RuntimeSelection and RuntimeContexts

`Candidate` is what `selection.py` finds out about one backend (availability,
platform, fallback, blockers), `Select` the decision over those it considers.
`RuntimeContexts` keeps the registry and each backend's dictionary of contexts; where
it needs a name `RuntimeStateFiles` has too, its own begins with "Contexts", because one
module proves about both.
The id of a context is made of its use, platform and seed, so a learning lifecycle
(`Bind`, `PlaceStep`) and a portability smoke on the same backend, platform and
seed share one. A lifecycle never closes its context. A smoke begins
(`PortabilitySmoke`, `CpuSmoke`), goes through its phases (`PhaseSucceeds`,
`PhaseFails`) and is torn down in its `finally` clause (`Teardown`), after which its
receipt is written; an interrupt between two calls (`Interrupted`) passes through
the `finally` clause and leaves no receipt. The `state` phase can only succeed
where `evaluate_runtime_resume_compatibility` accepts the request's own state
(`Resumable`). The program has one thread, so nothing else happens while a smoke
runs. A backend whose `close` raises has let go of the device first, as the JAX
backend does. Device ids sort as JAX lists them, which they do within a process
and below ten devices (the code sorts them as strings). `torn` is history. Refused
calls change nothing and are not steps.

## 3. Runs

All runs finish on two workers in well under five minutes.

| Run | Instance | What it shows |
| --- | --- | --- |
| `learning_loop` | two hooks with opposite priorities, max_steps 0 and 3, cadence none and 2, fresh and mid-interval starts with differing counters, sources of 2 and 4, counters moving by 0 to 2 | `LockStep`, `PassMeansComplete`, `TraceTellsTheRun`, `DisabledForGood`, `FailFastStops`, and under fairness `RunEnds` |
| `learning_loop_failure_hook` | the same | refutes `CoreFailureReported`: see section 6 |
| `continuation` | schedules of 0, 4 and 6 units over two epochs, intervals 1, 2, 4, a fresh and a trained learner, stops after 1 and 3, three faults | `ExactlyOnce`, `EnvelopesAgree`, `ResumeEquivalence`, `BoundedLoss`, `OnlyCallbacksRaise`, `ImplementsLedger`, and under fairness `RunCompletes` |
| `continuation_cadence` | the same | refutes `CheckpointEveryInterval` |
| `checkpoint_publish` | three savers of both kinds, two names, free, empty or occupied, two faults | `VisibleIsWhole`, `SavedStays`, `SomebodyWins`, `ImplementsStore` |
| `step_reuse` | two contracts, scopes and shapes, a cache of two, six steps | `RightExecution`, `CacheHonest`, `CacheIsWorkingSet`, `CompiledOnce` |
| `jax_training` | a fresh learning state, one in the middle of an interval and of a micro step, one with optimizer steps; four batches, two steps a run, cadence two, three faults | `WholeLifecycle`, `ReplayIsExact`, `KeysAreFresh`, `LoopFollowsLifecycle`, `FailuresAreTheCallers`, `TrainsInLockStep` |
| `runtime_state_files` | three savers, each with or without overwrite, the directory there or not, two faults, one reader | `LoadsAreOfOneMoment`, `SavedIsLoadable`, `OnlyOthersRefuse` |
| `checkpoint_v2` | three saves, of which the second repeats the first's step and the third is of another run; loads that expect either reference or none | `RestoredIsOneRecentSave`, `AcknowledgedIsLoadable` |
| `behavior_lineage` | two names, each of any of fourteen sources of two to five examples (registries in and out of order, ties, an assignment twice, missing, out of range, too few exemplars); three units, two corridor results, two final checkpoints, one report | `SplitAlternates`, `NamesAgree`, `ReportsTellTheRun`, `HeldOutUnseen` |
| `behavior_lineage_sealed` | the same sources, one pass | refutes `TrainsWhatWasSealed`: see section 6 |
| `runtime_contexts` | two backend objects that compete for the id `jax`, one of another id that opens no contexts; one device, two GPUs, the second of two processes, no JAX; two lifecycles, two seeds; every selection of four backends, five platforms, with and without fallback and a required capability or policy | `LifecyclesKeepTheirDevice`, `SmokesCleanUp`, `ReceiptTells`, `SelectionHonest` |

Bounds and why they are enough. Two hooks show order, cutting short and
disabling; three steps with a cadence of two, started at global step 1, put a
checkpoint at the first step, and steps after and between checkpoints. Two epochs
of a schedule make a unit recur, intervals 1 and 4 are the one that is always due
and one that never divides 6; three faults allow a restore from a restored run
that was stopped. Two names let savers race for one while a third works next to
it; two faults allow a death followed by a power loss. Four identities in a cache
of two, six steps, allow a hit, an eviction and a recompilation of the evicted.
Two steps a run and four batches make two runs of one process and
a checkpoint in each; three faults allow a failure, a restore and a death in one
behaviour. Three savers are two that race and one that comes after them; they are
interchangeable, and the run that checks no liveness uses that symmetry. The same
holds of the names of sources and of lifecycles. Three saves allow a failed one over
an acknowledged one, and a load that sees three of them. Three units allow an exemplar pass
after a second epoch of the corridor; two results of each kind allow a binding of
one with the predecessor of another. Two seeds on one platform make a namesake and
a stranger of a lifecycle's context; two objects for one id make a replaced backend.
The counters that had to be cut are `faults`, `calls` and `saves` (`MaxFaults`,
`MaxCalls`, `MaxSaves`); what the caller of `BehaviorLineage` holds is bounded by
`MaxUnits`, `MaxCorridors`, `MaxFinals` and `MaxReports`.

Fairness. `LearningLoop!FairSpec` is weak fairness of the loop's own steps, not of
raising: it is sequential code whose callbacks return. `Continuation!FairSpec` is
weak fairness of `Progress`, the runner and a caller that takes an interrupted run
up again; nothing is assumed of faults, which are finitely many. The other
specifications state safety only.

Deadlock. A returned `LearningLoop` stutters by an action of its own, and
`JaxTraining`, `CheckpointV2` and `RuntimeContexts` never stop: there is always another
run, load or call to make. `CheckpointPublish`, `StepReuse` and
`RuntimeStateFiles` may stop (all savers saved or dead, all steps taken), and so may
`BehaviorLineage` (the bounds on what the caller holds are reached), hence
`CHECK_DEADLOCK FALSE` there.

## 4. Proofs

The theorems hold for every value of the constants that satisfies the named
assumptions, which every run evaluates on its instance. Most state types and that
sentinels are distinct (`HooksAssumption`, `LoopAssumption`, `ContinuationAssumption`,
`PublishAssumption`, `ReuseAssumption`, `StateFilesAssumption`, `SentinelAssumption`,
`TrainingAssumption`, `LineageAssumption`, `ContextsAssumption`, `NothingAssumption`).
Three say more:

* `SavesAssumption`: equal bytes of a learning or optimizer file of a version 2
  checkpoint have equal steps.
* `SelectionAssumption`: every id has one place in the order of ids, and a declaration
  names platforms of `SUPPORTED_RUNTIME_PLATFORMS` only, as those of the repository's
  backends do (`runtime/registry.py:213`, `:521`).
* `ProcessesAssumption`: the devices of the only process there is belong to it. The
  inspection reports a device or a process whose index is not below the number of
  processes as a blocker (`runtime/_device_inspection.py:50-64`, `:97-110`), so that
  with one process both are 0; without it a smoke could find a device of the platform
  and none of its own in a process that is alone.

Every safety property of a passing run is a theorem, and of the liveness properties
the part that needs no fairness: `RunsAreBounded` and `ContinuationIsBounded` give a
natural number that falls with every step. `ReasonLostToFailureHooks`, `CadenceIsKept`
and `DeathsHaveACause` are the other side of the three refuted sentences of section 6:
they say of which runs and sources each is true. By module:

* `LearningLoopProofs`: `TypeCorrect`, `StaysInLockStep`,
  `NothingAfterHookFailure`, `FailsAtMostOnce`, `TraceIsTrue`, `PassesAreComplete`.
  Lock step needs to know at which `pc` a batch is in hand; the action property needs
  that under `fail_fast` a hook has failed only where the run is on its way out. The
  trace (`Trace`) is counted per event and needs the reason to stop tied to the place
  of the run: none before the way out, a core failure at the failure event, an end at
  the end event. A passing run needs the checkpoints it owes at *every* place
  (`UpToDate`): all that are due, but for the step just adopted while its checkpoint
  is still on the way. `RunsAreBounded` needs `WithinBound`, that an iteration only
  begins below max_steps; a run takes at most 8 max_steps + 9 steps. `CalledIsTheLoop` is
  about the operator: `Called` says which hooks are asked by a condition on their
  predecessors, the code by a loop, and the loop can have asked no other set
  (the first hook they would differ on is asked by both or by neither).
  `FailFastAsksNoMore` is what the cut means within one dispatch, `FailFastFailsOnce` over
  a whole run, the failure event after the failure included. `ReasonLostToFailureHooks` carries the reason to
  the end (`ReasonKept`): only a dispatch of the failure event that asks somebody can
  raise past it.
* `ContinuationProofs`: `TypeCorrect`, `TrainsExactlyOnce`,
  `EnvelopesAlwaysAgree`, `RunnerNeverRaises`, `ContinuationImplementsLedger`,
  `ResumedIsUninterrupted`, `LossIsBounded`, `CadenceIsKept`, `ContinuationIsBounded`.
  The strengthening says where the cursor is relative to the call's base, and
  that whatever state the runner hands out is the one at the cursor: without it
  an envelope could be written from a state of an earlier boundary. The two theorems on
  resumption add how the run state counts optimizer steps (`Counts`: from zero, or
  from the learner's own step), that a runner at the end of the schedule has saved
  what it returns, in this call or the one it was restored from (`Ended`), and the
  pace of the cadence (`Pace`): the units since the last envelope are at most the
  remainder of the counted step, unless a call took over the learner's own step in
  between. It can do that once only, which is where the second interval comes from.
  `Slips` names what it takes, a learner whose steps are no whole intervals, a callback
  that reports them and a stop request (`Causes`); `CadenceIsKept` is what holds without. The measure of `ContinuationIsBounded` counts
  the faults that may still come, each a lap of 5n + 6 steps, and below them five steps for
  each unit ahead: f faults and n units end within (f + 1)(5n + 6) steps.
* `CheckpointPublishProofs`: `TypeCorrect`, `AlwaysWhole`, `SavesStay`,
  `PublishImplementsStore`, `NeverReplaced`, `RaceIsWon`. The strengthening says that a hidden sibling
  past its sync is complete (every part written, synced and listed), that every entry a
  name shows *or may show after a power loss* is a sentinel or complete, and that
  a saver past its rename owns what its name shows. `NeverReplaced` is read off the
  abstract steps: of one name, that content never changes into other content. The race (`RaceInv`) needs that,
  while nothing has gone wrong, an unsettled name shows a checkpoint only of a saver
  about to acknowledge it, and that an empty directory which vanished was removed by a
  saver about to rename: whoever turns another away is still at work.
* `StepReuseProofs`: `TypeCorrect`, `CacheStaysHonest`, `NeverStale`,
  `CacheStaysWorkingSet`, `CompilesOnce`. The strengthening says that the kernel is of
  the lifecycle's contract and, in a step, of its scopes, and what the handle may be at
  each point of a step. That the cache is the working set is a cardinality argument:
  clock readings differ, so that a touch adds one identity above every other, and the
  one the `OrderedDict` evicts is just the one that has MaxEntries above it. Compile
  once follows: an identity whose last compilation no failure undid is cached or in
  the hand of the step that compiled it (`NoneLost`).
* `JaxTrainingProofs`: `TypeCorrect`, `AlwaysWhole`, `ExecutorNeverAhead`,
  `OnlyCallersFail`, `KeysStayFresh`, `ReplayStaysExact`, `AlwaysTrainsInLockStep`.
  The strengthening counts the keys too (`KeysCount`:
  the i-th step of a lineage has the i-th key), says all this of every checkpoint
  as well as of the live lifecycle, and keeps the loop's own two optimizer counters
  as far apart as assembled (`LoopCounts`), which is what makes the loop's check of
  the envelope pass where the executor compared the learning states only.
* `CheckpointV2Proofs`: `TypesHold`, `RestoresAreWhole`, `AcknowledgedLoads`.
  The strengthening says which files the save under way has
  finished, that no manifest is older than what was acknowledged, and what an
  undisturbed load has verified and read, in terms of the directory as it still is.
* `BehaviorLineageProofs`: `TypesHold`, `NamesAlwaysAgree`, `ReportsTell`,
  `HeldOutStaysUnseen`, `PassNeedsAPrefix`, `SplitTakesTurns`, `SplitsAlternate`,
  `SplitIsBalanced`, `DeathsHaveACause`, `SortedRegistriesDie`. The arithmetic is in the lemmas: in a complete
  batch the rank of a row among the rows is the place of its example among the ids
  (`LocalRowFindsExample`), and a pass that gets through names its coordinates truly
  (`PassNamesAreTrue`), because its rows must then be the first ones of the registry,
  which `PassNeedsAPrefix` states. The
  invariant says that every held checkpoint is what its pass made of sealed batches,
  and every report what the evaluation saw. The split is a recursion over the ids; what
  holds after each of them (`TakesTurns`: the two sides take turns, and the counts are
  the sizes of the sides) is shown by the least id it would fail at, since the minimum of
  a set of numbers (`WFMin`) can be cited and the induction theorems cannot. That it is the
  source alone that decides whether a pass over it dies (`SourceDecides`) is an invariant,
  because the batches an admitted pass gets are sealed under the source its binding
  names. `SortedRegistriesDie` is the common case: with three ids beside the two reserved
  ones in order of the registry, the second is held out and the third trains.
* `RuntimeProofs`, the state files: `TypeCorrect`, `LoadsOfOneMoment`,
  `SavedStaysLoadable`, `RefusedForOthers`. The first strengthening says that whose
  manifest is in place, that saver is done: no state of its can appear after its
  manifest, so what a reader finds to match was there before. The second (`AInv`) follows
  the save that found nobody at work: until another gets past its check it works alone and
  what it has put in place stays; and a temporary file outlives its saver only if that dies.
* `RuntimeProofs`, selection and contexts: `SelectIsHonest`, `SelectionsAreHonest`,
  `ContextsTypeCorrect`, `ReceiptsTell`, `SmokesLeaveNothing`, `LifecyclesStayPut`.
  That a selection is honest is a fact about the operators, for any declarations with
  different ids and any request and inspection: the best candidate exists because
  `Better` orders a finite set of them, it serves its request (`EligibleServes`), and
  what could serve has no blockers (`ServesEligible`). The invariant of the contexts says
  whose each one is, a bound lifecycle's or the running smoke's (`ContextsOwned`), and
  that a bound lifecycle finds its own device, none after a smoke tore it down, or
  the running smoke's (`KeptOrTorn`). The third case is why the property is not
  inductive alone: what a smoke opens over a lifecycle's context must be gone when
  the smoke is over.

Only model-checked: the liveness properties `RunEnds` and `RunCompletes`. That a run is
bounded is proved; that it does not stop short of its end needs fairness and ENABLED,
which are out of the provers' reach. The three refuted properties are TLC's, too: a
counterexample is one behaviour.

## 5. Not modelled

Numerical code (architectures, objectives, optimizers), parsing and admission of
artifacts, the HF projection, conversions between records and JSON, digests (they do not
collide), the JAX backend beyond contexts, placement, prepare, compile and dispatch, the
command line, reports, debug and legacy paths.

`validation/` and the acceptance modules of `learning/` are more than a third of
the implementation. They are straight-line drivers that build fixtures, call the
components above, compare and write evidence; they keep no state that another part
reads, so a model of them would restate their text.

Of the modelled components: a `PreparedExecution` that a caller keeps and uses
again with other arguments (only tests and experiments keep one; the backend checks
its arguments), an envelope of another run restored through the convenience function
without an expected identity, the run report (a projection of a result), the array bridge and
the placement boundary, and how the environment is inspected: what an inspection
may say is a constant. `PROJECT.json` lists every component with its status.

## 6. What the models show of the documentation

* *Failure hooks must not erase the core failure that triggered them*
  (`bible.md`). They can: a hook that answers the failure event with a result
  whose warnings repeat a code makes the receipt raise, and the exception replaces
  the result. Run `learning_loop_failure_hook`; nothing but an enabled hook that listens to
  failures can (`ReasonLostToFailureHooks`).
* *Checkpoints every eight optimizer steps* (`PHASE_6_EXECUTION_LEDGER.md`). The
  cadence counts from the state a call starts with, the state records what the
  callback reports; for a learner with steps of its own they differ after a stop,
  and the next envelope may be up to almost two intervals away. Run
  `continuation_cadence`; `BoundedLoss` is the bound that does hold, `CadenceIsKept` says
  when the sentence does.
* *P5.4 keeps coordinates global*, and an objective maps them *to the local neutral
  batch rows* (`behavior/objectives.py:71-72`). The corridor pass itself looks the
  global row up in the ids of its own partition. A sealed, admitted batch whose training
  rows are not the first ones of the registry makes it die of an `IndexError` nothing
  catches. Run `behavior_lineage_sealed`; where the pass gets through, `NamesAgree` holds,
  and `PassNeedsAPrefix` says when it does.

Other things a reader of the documentation should know, which the models make plain
and no run refutes on its own:

* *Atomically write a small manifest-last runtime state artifact* (the docstring of
  `save_runtime_state`). With `overwrite=True` the old files go before the new ones
  come, so a reader or a crash in between finds none. Two savers that both find the
  directory absent both pass the check, and it may end with the manifest of one and
  the state of the other, which no load accepts. What manifest-last does give is
  `LoadsAreOfOneMoment`, and `SavedIsLoadable` says when a save stays loadable.
* The training batches shown to an evaluation prove that no held-out example is among
  *them*. The exemplar pass does not compare its batch with the materialization its binding
  names: one that was given the training batch of another source may have trained on what is
  held out. `HeldOutUnseen` says exactly this.
* An explicit backend limits eligibility unless a compatible fallback is allowed
  (`docs/P2_3_RUNTIME_BACKEND_REGISTRY.md:59`). Where it is allowed, a backend that is registered and cannot serve
  is still the only one considered; others come in only if it is not registered.
  Among eligible candidates the ranking is decided by the backend's id:
  an eligible candidate never differs from another in the keys before it.
* A step's inputs are placed on the selected device (`docs/P3_11_6_RUNTIME_JAX_BRIDGE.md`). After a
  portability smoke of the same backend, platform and seed has closed the context they
  share, a process with several devices refuses the next step;
  `LifecyclesKeepTheirDevice` says that nothing else can.
* A portability smoke that falls back to another backend, as its request allows, cannot
  pass: the state it saves names the backend that served, and the resume check
  compares it with the one asked for (`runtime/state.py:622-631`).
* A selection that fails without any candidate reports every required capability
  as satisfied (`Failure`).

## 7. Plan

Done: the loop with its hooks, the continuation runner, publication of
checkpoints, reuse of executions, the JAX executor with its checkpoints, runtime
state files, version 2 checkpoints, the behaviour passes and their evaluation,
backend selection, contexts and smokes; the type invariants and every safety
property of a passing run proved. What could come next, in this order:

1. The identities an envelope is restored by in `Continuation`, with a second run in
   the same place, and the theorem that the lineage of a restored run is its own.
2. A `PreparedExecution` the caller keeps in `StepReuse`, and the run report against the
   trace of the loop.
