# Formal models of Kratix

TLA+ models of the controllers in this repository, checked with TLC on small
instances, and theorems about them proved with TLAPS. `PROJECT.json` lists the
components, the runs, the source lines behind each definition, the hazards of
the code and the findings.

## The system

Kratix is a set of Kubernetes controllers that share nothing but objects on the
API server, plus pods that they start.

1. A **Promise** or a **resource request** (the *parent*) has a configure
   workflow: a list of pipelines, each run as a Job. `lib/workflow` creates the
   Jobs one after the other; the containers of a Job's pod write a **Work** per
   pipeline and the parent's status.
2. The **Work controller** and its **scheduler** turn the workload groups of a
   Work into **WorkPlacements**, one per target **Destination**.
3. The **WorkPlacement controller** writes the workloads to the Destination's
   state store, a git repository or a bucket, and removes them on deletion.

Each controller has one worker, reads objects (partly from an informer cache
that lags behind), decides, and makes several API calls in a row. Between any
two calls users, pods and other controllers act; an update with an old
`resourceVersion` is refused; the process may die; deletion is held up by
finalizers. A write that changes an object is an event that queues it again.

### Inventory

| Component | State | Operations | Module |
|---|---|---|---|
| Workflow reconciler, configure | parent, Jobs, Works | list Jobs, count, suspend, mark failed or running, create, clean up | `Workflow` |
| Pipeline pods | Job phase, Works, condition | work-creator, status-writer, restart, end | `Workflow` |
| Work controller, scheduler | Work, WorkPlacements, Destinations' labels | finalizer, place, update, status, dangling cleanup, delete | `Scheduler` |
| WorkPlacement controller, writers | WorkPlacements, state store, VersionCache | write, conditions, version, finalizers, delete | `WorkPlacement` |
| Resource request controller | finalizers, status | calls `ReconcileConfigure`; status from Works; deletion | first part in `Workflow`, rest planned |
| Promise controller | CRD, dynamic controller, dependencies, requirements | install, update, delete | planned |
| Destination and state store controllers | readiness, canary files | validate, write canaries, delete | planned; what others see of it is in `Scheduler` and `WorkPlacement` |
| PromiseRelease, HealthRecord | Promise, health status | install, copy status | planned |
| Webhooks, RBAC, reader, manager, tools, generated code | | | not modelled, see `PROJECT.json` |

## Modules

### Workflow, PipelineRun, WorkflowProofs

`Workflow` is one parent object with its Jobs and Works. `parent` is the object
on the API server, `obj` the copy that `ReconcileConfigure` works on, and `fresh`
says whether they still have the same `resourceVersion`. `pc` names the next API
call. `Get`, `ListJobs`, `UpdateCounters` lead to `decide`, where the branches of
`ReconcileConfigure` are actions of their own (`NoPipeline`, `WaitForJob`,
`SuspendJob`, `MarkFailed`, `AllDone`, `MarkRunning`, ...). Pods run as
`WorkCreator`, `StatusWriter` and `JobEnds`; `PodRestarts`, `Abandon`,
`ApplyFails`, `SuspendFails` and `CleanupJobsFails` are the faults. Works carry
the work-cleanup finalizer, so `DeleteWork`, one call of the cleanup, only marks
a Work; it goes with `RemoveWork`, a step of the Work controller, and until then
a work-creator that finds it by its labels still updates it. The lists of Jobs
and Works are taken to be complete and in order.

`PipelineRun` says what a workflow promises: the pipelines of one version run
one at a time and in order. `Workflow` implements it through the newest Job
(`LatestRun`).

### Scheduler

One Work with its groups, Destinations with labels, and the WorkPlacements by
group and Destination. `Settings` says which kinds of Work, cache and faults a
behaviour may start with. `reconcileWorkloadGroup` starts a group with the cached
list of WorkPlacements and either updates those it found or draws targets;
`updateWorkPlacement`, `createOrUpdate` and `updateWorkPlacementStatus` are its
calls. `updateWorkStatus`, `cleanupDanglingWorkplacements` and `reportFailing`
end a reconciliation. With `CacheLags` the WorkPlacement cache follows only when
`Sync` happens, and a write is an event only then. `deletePlacements` and
`removeFinalizer` list unstructured objects, which the client does not cache, and
see the API server's. The Work itself is read up to date, and a list of
WorkPlacements is deleted in one step. The random choice of a Destination is a
nondeterministic one. A Destination is deleted in both of its cleanup modes: with
`none` it goes at once, with `all` its finalizer keeps it until
`deleteDestination` has found no WorkPlacement left. The result of each write to
a state store is reported by `ReportWrite`.

### WorkPlacement

The WorkPlacements of one Destination and its state store. `Settings` gives the
pairs of filepath mode (immutable in the CRD) and kind of state store that a
behaviour may start with. The git writer replaces the store in
one step; the bucket writer may stop after any object (`Interrupted`). In mode
`none` the `.kratix` state file lists what was written; in mode `aggregatedYAML`
one file holds the workloads of all active WorkPlacements. Versions are counted
per WorkPlacement (`last`), so that an older one can be told from a newer one.
Different WorkPlacements are taken to have different file names, and no file
name leads out of the repository (at such a path git.go:163 gives up the write
and reports no error).

`Scheduler` and `WorkPlacement` meet in the WorkPlacement: each has the other's
writes as environment actions (`ReportWrite` and `RemovePlacement` there,
`Create`, `ChangeWorkloads`, `Schedule` and `Delete` here). The scheduler also
updates WorkPlacements that are being deleted. `Workflow` and
`Scheduler` meet in the Work: `EditGroup` is what a work-creator does.

The operators named `Mut...` are faulty variants of the definition that follows
them. Each run's properties are known to fail when the variant is used instead.

## Runs that pass

| Run | What it shows |
|---|---|
| `workflow_safety` | `OnlyLatestJobRuns`: two pods never run at once. `FinishedMeansWorksCurrent`: when a workflow is finished, the last write to each of its Works is the output of its version, and the other Works are gone or being deleted. `FailureIsLatest`: a failure is counted only while its Job is the newest. `PipelinesRunInOrder`: refinement of `PipelineRun`. |
| `workflow_liveness` | `StatusSettles`: the status settles on the outcome of a run of the last version. |
| `scheduler` | A resource request with one crash or failed write, a dependency with two groups of which one may fail, and both with a cache that lags. `PlacementsMatchWork`: a successful reconciliation leaves nothing dangling or out of date. `GoneWorkHasNoPlacements`: the finalizer does its job. `WorkRests`: when the controller has nothing left to do, the Work is settled, so no event was forgotten. `SchedulingSettles`: it gets there. |
| `placement_files` | Mode `nestedByMetadata` on a bucket whose writes may stop halfway, and mode `none` on git: `GoneLeavesNoFiles`; `PlacementsRest`: a WorkPlacement that is not queued is written and says so; `StoreSettles`: the store ends up with what the WorkPlacements say. |
| `placement_aggregated` | Two WorkPlacements in one file, no faults: `GoneLeavesNoFiles`, `StoreSettles`, `DeletionCompletes`. |

`WorkRests` and `PlacementsRest` are the safety halves of the two liveness
properties: they fail when an event is lost, `SchedulingSettles` and
`StoreSettles` also when the controllers go round without end.

Deadlock is not checked: all three systems come to rest once the queue is empty
and the bounded edits are used up.

### Bounds

`MaxEdits` and `MaxFaults` bound the changes of users and other controllers, and
the crashes and failures; `MaxJobs` bounds the Jobs. Two versions that share a
pipeline name and differ in the other one, with a third that has no pipelines,
reach every branch of `ReconcileConfigure`; an edit and a revert, or an edit and
a manual request, are needed for the interesting interleavings, and `MaxEdits`
is 2. With two pipelines a version has a first and a last one but none in
between; the theorems below hold for any number. Two Destinations, one strict,
and two group contents give every outcome of the selector, and two edits relabel
a Destination back and forth, or change it and the Work. Groups only meet in the
list of those that failed or are misplaced and in the cleanup, so the setting
with two groups has one Destination. With a cache that lags, one setting has two
Destinations and no edit, for either kind of Work: every call can meet a cache
that is behind by any number of the calls before it. Another has one Destination
and two edits. Four edits create, change, reschedule and delete a WorkPlacement,
and two workloads of which one has a file more make updates remove something.

`workflow_safety` stops at `MaxJobs = 6`, where `applyResources` is no longer
enabled: enough for a version of two pipelines to be replaced and restored and to
run in full each time. `MaxJobs` in the liveness runs is more than their edits
can use. `workflow_liveness` allows no edit that returns to a version whose Jobs
exist, and no fault: the next section says what happens then. A failed placement
call can leave a Work unscheduled for good (`scheduler_swallowed`), which takes
two of them: the `scheduler` run has one, in the setting with two groups.
`placement_files` leaves out mode `none` on a bucket, which is `placement_bucket`.

### Fairness

A controller's worker takes what is queued and goes on until it returns, so its
steps are weakly fair; pods, the informer, the garbage collector and the
deletions of the Work, WorkPlacement and Destination controllers are too. In
`WorkPlacement` several objects share a queue, which serves each of them in turn:
`Get` is strongly fair for each. Edits, faults and reported failures are never
assumed to happen.

## Runs that show a disagreement

| Run | Property that fails | In short |
|---|---|---|
| `workflow_revert` | `InProgressEnds` | An edit undone before its Job exists leaves the condition in progress. |
| `workflow_works` | `NoWorkLost` | A pipeline taken out and put back before its deleted Work is gone loses its Work. |
| `scheduler_duplicate` | `OnePlacementPerGroup` | A WorkPlacement that is not in the cache yet is created again on another Destination. |
| `scheduler_failing` | `FailingSettles` | Two writers of one condition overwrite each other without end. |
| `scheduler_swallowed` | `SchedulingRetried` | After two failures in a row a Work is not retried. |
| `placement_bucket` | `StoreSettles` | Mode none: an interrupted bucket write forgets which files to remove. |
| `placement_undeletable` | `DeletionCompletes` | Mode none: deleted before the first write, it stays forever. |

The statement each one contradicts is quoted in `PROJECT.json`.

The modules state some more properties that do not hold. They have no run of
their own; the constants in the last column, in the configuration named there,
show each one.

| Property | In short | Configuration |
|---|---|---|
| `InProgressEnds` | A failed create of the Job is only logged (reconciler.go:574) and never retried. | `workflow_liveness`, `MaxFaults = 1` |
| `FailedMeansJobFailed` | A Job the controller suspended is reported as failed after a revert (reconciler.go:352). | `workflow_revert` |
| `CompletedIsEarned` | The last pod of an outdated run completes the condition between the read of the parent and the list of Jobs (reconciler.go:446); the new run starts under it. | `workflow_safety` |
| `DestinationsGo` | A WorkPlacement that goes between the scheduler's list and its CreateOrUpdate is created again at a Destination that is being deleted (scheduler.go:340); if that repeats, the deletion never ends. `SchedulingSettles` is about the time when no deletion is under way. | `scheduler` |
| `LabelSettles` | Resource requests: the misplaced label is never taken off (scheduler.go:268). | `scheduler` |
| `GoneLeavesNoFiles` | Mode none on a bucket: the file an interrupted write forgot stays when the WorkPlacement goes. | `placement_bucket`, `MaxEdits = 3` |
| `NoStateFileLeft` | Mode none: deleted before the second finalizer is added (workplacement_controller.go:106), its state file stays. | `placement_files` |
| `VersionRecorded` | A conflict on the update of WriteSucceeded drops the version of the write (workplacement_controller.go:366). | `placement_files` |
| `VersionNeverRegresses` | An entry left in VersionCache overwrites a newer version (workplacement_controller.go:132). | `placement_files` |
| `BucketHasNoVersion` | A bucket write records a version, though workplacement_types.go:45 says it is always empty. | `placement_files` |

## What is proved

`WorkflowProofs` proves, for every set of versions, every assignment of distinct
pipelines to them and every bound (`WorkflowAssumption`):

- `TypeCorrect`: `TypeOK`;
- `MutualExclusion`: `OnlyLatestJobRuns`;
- `FinishedIsCurrent`: `FinishedMeansWorksCurrent`;
- `FailureCounter`: `FailureIsLatest`;
- `Refinement`: `Workflow` implements `PipelineRun`.

All rest on one inductive invariant, `IInv`. The properties are not inductive by
themselves, because a reconciliation decides on what it listed some steps ago.
`SnapshotOK` says how far that can be out of date: no Job has been added since,
and the newest one can at most have ended. With it `IndexOK` gives the meaning
of `pipelineIndex`, `ApplyOK` what is known when a Job is created (nothing runs,
the predecessor completed at the same version) and `CleanupOK` what is known
during cleanup. `WorksOK` is the link to the Works: each pipeline up to the
newest Job has written its Work, and the last write (`HasOutput`) is the output
of the Job's version, whether or not the Work was being deleted by then.
Deletions that other versions asked for may still end at any time, which is why
the theorem speaks of the last write and not of the Work's existence:
`NoWorkLost`, which does, fails. `FailedOK` says that only the controller
writes the failure counter. There is one lemma per action, and lemmas on what
the cleanup and the end of a deletion leave alone.

Liveness needs fairness, which the prover does not handle, and stays with TLC.
`Scheduler` and `WorkPlacement` are only model-checked so far.

## Plan

1. `ResourceRequest`: finalizers, `ReconcileDelete`, deletion of Works and Jobs,
   and the status derived from Works, together with `Workflow`'s writers.
2. `Destination`: readiness, canary files, deletion, with the state store
   controllers.
3. `Promise`: requirements between Promises, CRD, dynamic controller, static
   dependencies, deletion by finalizers. `PromiseRelease` on top of it, with an
   abstract specification of what installing a release promises.
4. `HealthRecord`, and the selection of Destinations as a pure algorithm
   (priorities of selectors) against a reference definition.
5. A composition of `Scheduler` and `WorkPlacement` in which each one's
   environment actions are the other's steps, and an abstract delivery
   specification (what the stores hold is what the Works say) that it implements.
6. A lagging Job list in `Workflow`; two writers that clone at the same time.
7. Proofs: `Scheduler` (`TypeOK`, `GoneWorkHasNoPlacements`, `PlacementsMatchWork`),
   `WorkPlacement` (`GoneLeavesNoFiles` for git), then the new modules.
