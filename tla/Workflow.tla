------------------------------ MODULE Workflow ------------------------------
(***************************************************************************)
(* The configure workflow of one parent object (a Promise or a resource    *)
(* request): lib/workflow/reconciler.go, the Jobs it creates, the          *)
(* containers that run in their pods, and the user who edits the parent.   *)
(*                                                                         *)
(* One step of the controller is one call to the API server.  Between two  *)
(* steps the user, the Job controller and the pods may act, and the        *)
(* controller may crash.                                                   *)
(***************************************************************************)
EXTENDS Integers, Sequences, FiniteSets

CONSTANTS
    Versions,            \* values of the parent's hash: its spec, and for a
                         \* resource request its Promise's spec as well
    PipelineNames,
    Pipelines,           \* the pipelines of a version, in order
    NumberOfJobsToKeep,  \* Jobs kept per pipeline name
    SpecEdits,           \* pairs <<v, w>>: the user may change v into w
    MaxJobs,             \* bound: Jobs ever created
    MaxEdits,            \* bound: spec edits and manual requests
    MaxFaults            \* bound: crashes, failed calls, pod restarts

ASSUME WorkflowAssumption ==
    /\ Pipelines \in [Versions -> Seq(PipelineNames)]
    /\ \A v \in Versions : \A i, k \in DOMAIN Pipelines[v] :
          Pipelines[v][i] = Pipelines[v][k] => i = k
    /\ NumberOfJobsToKeep \in Nat \ {0}
    /\ SpecEdits \subseteq Versions \X Versions
    /\ {MaxJobs, MaxEdits, MaxFaults} \subseteq Nat

VARIABLES
    parent,   \* the parent object on the API server
    jobs,     \* its Jobs in creation order; a removed one has phase "deleted"
    works,    \* works[n]: the Work of pipeline n
    pc,       \* the API call the controller makes next
    obj,      \* opts.parentObject, the controller's copy of the parent
    fresh,    \* obj has the resourceVersion of parent
    recent,   \* mostRecentJob as it was listed: its position and its phase
    index,    \* pipelineIndex, before it is cut to the last pipeline
    queued,   \* the parent is in the work queue
    edits, faults

api  == <<parent, jobs, works>>
vars == <<parent, jobs, works, pc, obj, fresh, recent, index, queued, edits, faults>>

-----------------------------------------------------------------------------
(* Objects *)

Phases == {"running", "complete", "failed", "suspended", "deleted"}
Conditions == {"none", "running", "failed", "true"}

\* stage: 0 pipeline containers, 1 work-creator done, 2 status-writer done
Job == [hash : Versions, pipe : Nat, phase : Phases, suspend : BOOLEAN, stage : 0..2]

\* cond is ConfigureWorkflowCompleted: "running" and "failed" are its two
\* False forms; -1 is a counter that is not in the status yet.
Parent == [hash : Versions, manual : BOOLEAN, cond : Conditions,
           succeeded : Int, failed : -1..1]

\* A Work has the work-cleanup finalizer of its controller, so a deleted one
\* goes later.  "doomed" is one that a pod has updated while it was being
\* deleted, and "lost" one that went after that: what the pod wrote is gone.
\* The version of a lost Work is that of its last write.
Work == [version : Versions \cup {"none"},
         phase : {"none", "live", "deleting", "doomed", "lost"}]

NoWork == [version |-> "none", phase |-> "none"]

NoJob == [id |-> 0, phase |-> "none"]

Count == [v \in Versions |-> Len(Pipelines[v])]
NameOf(job) == Pipelines[job.hash][job.pipe]
Exists(i) == jobs[i].phase # "deleted"

\* SortJobsByCreationDateTime, newest first, and its first element.
MostRecentJob ==
    IF \E i \in DOMAIN jobs : Exists(i)
      THEN LET i == CHOOSE i \in DOMAIN jobs :
                       Exists(i) /\ \A k \in DOMAIN jobs : k > i => ~Exists(k)
           IN  [id |-> i, phase |-> jobs[i].phase]
      ELSE NoJob

isRunning(job) == job.phase = "running"
isFailed(job) == job.phase \in {"failed", "suspended"}

\* Is job (as listed) a run of pipeline i of version v?
jobIsForPipeline(v, i, job) ==
    /\ job.id # 0
    /\ jobs[job.id].hash = v
    /\ NameOf(jobs[job.id]) = Pipelines[v][i]

\* Mutant: a failed Job counts as done.
MutFailedIsDone(o, job) ==
    LET matching == {i \in DOMAIN Pipelines[o.hash] : jobIsForPipeline(o.hash, i, job)}
    IN  IF o.manual \/ matching = {}
          THEN 0
          ELSE LET i == CHOOSE i \in matching : TRUE
               IN  IF isRunning(job) THEN i - 1 ELSE i

\* Mutant: an unfinished Job counts one pipeline too few.
MutIndexTooLow(o, job) ==
    LET matching == {i \in DOMAIN Pipelines[o.hash] : jobIsForPipeline(o.hash, i, job)}
    IN  IF o.manual \/ matching = {}
          THEN 0
          ELSE LET i == CHOOSE i \in matching : TRUE
               IN  IF isFailed(job) \/ isRunning(job) THEN i - 2 ELSE i

\* How many pipelines of obj's version are done, going by the latest Job.
nextPipelineIndex(o, job) ==
    LET matching == {i \in DOMAIN Pipelines[o.hash] : jobIsForPipeline(o.hash, i, job)}
    IN  IF o.manual \/ matching = {}
          THEN 0
          ELSE LET i == CHOOSE i \in matching : TRUE
               IN  IF isFailed(job) \/ isRunning(job) THEN i - 1 ELSE i

-----------------------------------------------------------------------------
(* The user, and the controllers that ask for a new run by label *)

Edit(p) ==
    /\ edits < MaxEdits
    /\ edits' = edits + 1
    /\ parent' = p
    /\ fresh' = FALSE
    /\ queued' = TRUE
    /\ UNCHANGED <<jobs, works, pc, obj, recent, index, faults>>

EditSpec ==
    \E v \in Versions :
        /\ v # parent.hash
        /\ <<parent.hash, v>> \in SpecEdits
        /\ Edit([parent EXCEPT !.hash = v])

RequestManualReconciliation ==
    /\ ~parent.manual
    /\ Edit([parent EXCEPT !.manual = TRUE])

-----------------------------------------------------------------------------
(* A Job's pod, and the Job controller *)

PodStep(i, job) ==
    /\ jobs' = [jobs EXCEPT ![i] = job]
    /\ UNCHANGED <<pc, obj, recent, index, edits>>

\* The Work of version v after a work-creator has written it: GetWork also
\* returns one that is being deleted, and that one is updated.
Written(work, v) ==
    [version |-> v,
     phase |-> IF work.phase \in {"deleting", "doomed"} THEN "doomed" ELSE "live"]

\* The work-creator container writes the Work of the Job's pipeline.  Works
\* are watched by the controller of resource requests, not by that of Promises.
WorkCreator(i) ==
    /\ isRunning(jobs[i]) /\ jobs[i].stage = 0
    /\ works' = [works EXCEPT ![NameOf(jobs[i])] = Written(@, jobs[i].hash)]
    /\ PodStep(i, [jobs[i] EXCEPT !.stage = 1])
    /\ queued' \in {queued, TRUE}
    /\ UNCHANGED <<parent, fresh, faults>>

\* The Work controller lets a Work go once its WorkPlacements are gone.
RemoveWork(n) ==
    /\ works[n].phase \in {"deleting", "doomed"}
    /\ works' = [works EXCEPT ![n] = IF @.phase = "doomed" THEN [@ EXCEPT !.phase = "lost"]
                                                         ELSE NoWork]
    /\ queued' \in {queued, TRUE}
    /\ UNCHANGED <<parent, jobs, pc, obj, fresh, recent, index, edits, faults>>

\* The status-writer container merges the pipeline's own status (status)
\* into the parent's; the last pipeline's also marks the workflow completed.
StatusWriter(i, status) ==
    /\ isRunning(jobs[i]) /\ jobs[i].stage = 1
    /\ LET last == jobs[i].pipe = Count[jobs[i].hash]
           changed == status \/ (last /\ parent.cond # "true")
       IN  /\ parent' = IF last THEN [parent EXCEPT !.cond = "true"] ELSE parent
           /\ fresh' = (fresh /\ ~changed)
           /\ queued' = (queued \/ changed)
    /\ PodStep(i, [jobs[i] EXCEPT !.stage = 2])
    /\ UNCHANGED <<works, faults>>

\* The pod is lost and its successor starts from the first container.
PodRestarts(i) ==
    /\ faults < MaxFaults
    /\ isRunning(jobs[i]) /\ jobs[i].stage = 1
    /\ faults' = faults + 1
    /\ PodStep(i, [jobs[i] EXCEPT !.stage = 0])
    /\ UNCHANGED <<parent, works, fresh, queued>>

\* Mutant: the controller does not own its Jobs, so their end is no event.
MutUnwatchedJob(i, phase) ==
    /\ isRunning(jobs[i])
    /\ phase = "complete" <=> jobs[i].stage = 2
    /\ phase = "suspended" => jobs[i].suspend
    /\ PodStep(i, [jobs[i] EXCEPT !.phase = phase])
    /\ UNCHANGED <<parent, works, fresh, queued, faults>>

\* A pod whose status-writer exited has succeeded, and so has its Job.
JobEnds(i, phase) ==
    /\ isRunning(jobs[i])
    /\ phase = "complete" <=> jobs[i].stage = 2
    /\ phase = "suspended" => jobs[i].suspend
    /\ PodStep(i, [jobs[i] EXCEPT !.phase = phase])
    /\ queued' = TRUE
    /\ UNCHANGED <<parent, works, fresh, faults>>

JobCompletes(i) == JobEnds(i, "complete")
JobFails(i) == JobEnds(i, "failed")
JobIsSuspended(i) == JobEnds(i, "suspended")

-----------------------------------------------------------------------------
(* The controller: one reconciliation of the parent *)

Goto(label) ==
    /\ pc' = label
    /\ UNCHANGED <<obj, fresh, recent, index, edits, faults>>

\* Update or Status().Update of the whole object; it needs the current
\* resourceVersion, and a change comes back as an event.
Write(o, label) ==
    /\ fresh
    /\ parent' = o /\ obj' = o
    /\ pc' = label
    /\ queued' = (queued \/ o # parent)
    /\ UNCHANGED <<jobs, works, fresh, recent, index, edits, faults>>

\* The object is taken from the queue and fetched.
Get ==
    /\ pc = "idle" /\ queued
    /\ queued' = FALSE
    /\ obj' = parent
    /\ fresh' = TRUE
    /\ pc' = "list"
    /\ UNCHANGED <<api, recent, index, edits, faults>>

\* Mutant: a new run keeps the failure counter of the old one.
MutKeepFailed(o, n) == [o EXCEPT !.succeeded = n]

\* What the counters of o's status become when n pipelines are done.
WithCounters(o, n) ==
    [o EXCEPT !.succeeded = n, !.failed = IF n = 0 THEN 0 ELSE o.failed]

\* ReconcileConfigure lists the Jobs and works out where the workflow is.
ListJobs ==
    /\ pc = "list"
    /\ recent' = MostRecentJob
    /\ index' = nextPipelineIndex(obj, MostRecentJob)
    /\ pc' = IF obj = WithCounters(obj, index') THEN "decide" ELSE "counters"
    /\ UNCHANGED <<api, obj, fresh, queued, edits, faults>>

UpdateCounters ==
    /\ pc = "counters"
    /\ Write(WithCounters(obj, index), "decide")

Resources == Pipelines[obj.hash]

\* The 1-based position of opts.Resources[pipelineIndex].
Current == IF index >= Len(Resources) THEN Len(Resources) ELSE index + 1

JobIsForCurrent == jobIsForPipeline(obj.hash, Current, recent)

\* No pipeline to reconcile.
NoPipeline ==
    /\ pc = "decide" /\ Len(Resources) = 0
    /\ Goto("finished")
    /\ UNCHANGED <<api, queued>>

\* The Job is in flight: wait for it.
WaitForJob ==
    /\ pc = "decide" /\ Len(Resources) > 0
    /\ JobIsForCurrent /\ isRunning(recent) /\ ~obj.manual
    /\ Goto("idle")
    /\ UNCHANGED <<api, queued>>

SuspendsJob ==
    /\ pc = "decide" /\ Len(Resources) > 0
    /\ isRunning(recent)
    /\ JobIsForCurrent => obj.manual

\* suspendJob: a patch, so no resourceVersion is compared.
SuspendJob ==
    /\ SuspendsJob
    /\ jobs' = [jobs EXCEPT ![recent.id].suspend = TRUE]
    /\ queued' = (queued \/ jobs' # jobs)
    /\ Goto("idle")
    /\ UNCHANGED <<parent, works>>

\* An error of suspendJob is returned for a manual run, and is only logged
\* when the Job belongs to another run.
SuspendFails ==
    /\ SuspendsJob /\ faults < MaxFaults
    /\ faults' = faults + 1
    /\ queued' = (queued \/ JobIsForCurrent)
    /\ pc' = "idle"
    /\ UNCHANGED <<api, obj, fresh, recent, index, edits>>

MarksFailed ==
    /\ pc = "decide" /\ Len(Resources) > 0
    /\ JobIsForCurrent /\ isFailed(recent) /\ ~obj.manual

MarkFailed ==
    /\ MarksFailed
    /\ Write([obj EXCEPT !.cond = "failed", !.failed = 1], "idle")

\* The last pipeline is done: cleanup.
AllDone ==
    /\ pc = "decide" /\ Len(Resources) > 0
    /\ JobIsForCurrent /\ ~isRunning(recent) /\ ~isFailed(recent) /\ ~obj.manual
    /\ Goto("cleanupJobs")
    /\ UNCHANGED <<api, queued>>

CurrentNames == {Resources[i] : i \in DOMAIN Resources}

\* Job i is not among the last NumberOfJobsToKeep of its pipeline.
IsOldJob(i) ==
    /\ Exists(i)
    /\ NameOf(jobs[i]) \in CurrentNames
    /\ Cardinality({k \in DOMAIN jobs :
                       k > i /\ Exists(k) /\ NameOf(jobs[k]) = NameOf(jobs[i])})
         >= NumberOfJobsToKeep

DeleteJobs(old) ==
    /\ pc = "cleanupJobs"
    /\ jobs' = [i \in DOMAIN jobs |->
                   IF i \in old THEN [jobs[i] EXCEPT !.phase = "deleted"] ELSE jobs[i]]
    /\ queued' = (queued \/ jobs' # jobs)
    /\ pc' = "cleanupWorks"
    /\ UNCHANGED <<parent, works, obj, fresh, recent, index, edits>>

cleanupJobs ==
    /\ DeleteJobs({i \in DOMAIN jobs : IsOldJob(i)})
    /\ UNCHANGED faults

\* A delete fails: the Jobs of that pipeline from there on stay, and the
\* error is only logged.
CleanupJobsFails ==
    /\ faults < MaxFaults
    /\ faults' = faults + 1
    /\ \E first \in DOMAIN jobs :
          DeleteJobs({i \in DOMAIN jobs :
                         /\ IsOldJob(i)
                         /\ NameOf(jobs[i]) = NameOf(jobs[first]) => i < first})

\* Works of pipelines the version no longer has are deleted, one by one.
DeleteWork(n) ==
    /\ pc = "cleanupWorks"
    /\ n \notin CurrentNames
    /\ works[n].phase = "live"
    /\ works' = [works EXCEPT ![n].phase = "deleting"]
    /\ queued' \in {queued, TRUE}
    /\ Goto("cleanupWorks")
    /\ UNCHANGED <<parent, jobs>>

\* Mutant: an error of a deletion ends the loop and is not returned.
MutIgnoreDeleteError ==
    /\ pc = "cleanupWorks"
    /\ Goto("finished")
    /\ UNCHANGED <<api, queued>>

\* All of them are deleted, and the workflow is finished.
cleanupWorks ==
    /\ pc = "cleanupWorks"
    /\ \A n \in PipelineNames \ CurrentNames : works[n].phase # "live"
    /\ Goto("finished")
    /\ UNCHANGED <<api, queued>>

\* ReconcileConfigure returned abort = false; the caller does the rest.
Return ==
    /\ pc = "finished"
    /\ Goto("idle")
    /\ UNCHANGED <<api, queued>>

\* Mutant: a Job in flight for another run does not hold the new one up.
MutCreateAnyway ==
    /\ pc = "decide" /\ Len(Resources) > 0
    /\ JobIsForCurrent => obj.manual

\* createConfigurePipeline is called.
Creates ==
    /\ pc = "decide" /\ Len(Resources) > 0
    /\ ~isRunning(recent)
    /\ JobIsForCurrent => obj.manual

\* setConfigureWorkflowCompletedConditionStatus: the new Job waits for the
\* next reconciliation.
MarkRunning ==
    /\ Creates /\ obj.cond \in {"none", "true"}
    /\ Write([obj EXCEPT !.cond = "running"], "idle")

RemoveManualReconciliationLabel ==
    /\ Creates /\ obj.cond \in {"running", "failed"} /\ obj.manual
    /\ Write([obj EXCEPT !.manual = FALSE], "apply")

NoLabelToRemove ==
    /\ Creates /\ obj.cond \in {"running", "failed"} /\ ~obj.manual
    /\ Goto("apply")
    /\ UNCHANGED <<api, queued>>

NewJob == [hash |-> obj.hash, pipe |-> Current, phase |-> "running",
           suspend |-> FALSE, stage |-> 0]

applyResources ==
    /\ pc = "apply" /\ Len(jobs) < MaxJobs
    /\ jobs' = Append(jobs, NewJob)
    /\ queued' = TRUE
    /\ Goto("idle")
    /\ UNCHANGED <<parent, works>>

\* The Job is not created; the error is only logged.
ApplyFails ==
    /\ pc = "apply" /\ faults < MaxFaults
    /\ faults' = faults + 1
    /\ pc' = "idle"
    /\ UNCHANGED <<api, obj, fresh, recent, index, queued, edits>>

\* A write with an old resourceVersion: the error is returned, and the
\* object goes back to the queue.
Conflict ==
    /\ ~fresh
    /\ \/ pc = "counters"
       \/ MarksFailed
       \/ Creates /\ (obj.cond \in {"none", "true"} \/ obj.manual)
    /\ queued' = TRUE
    /\ Goto("idle")
    /\ UNCHANGED api

\* The controller dies, or a call fails with an error that is returned;
\* either way the object is reconciled again.
Abandon ==
    /\ pc # "idle" /\ faults < MaxFaults
    /\ faults' = faults + 1
    /\ pc' = "idle"
    /\ queued' = TRUE
    /\ UNCHANGED <<api, obj, fresh, recent, index, edits>>

-----------------------------------------------------------------------------
Init ==
    /\ \E v \in Versions :
          parent = [hash |-> v, manual |-> FALSE, cond |-> "none",
                    succeeded |-> -1, failed |-> -1]
    /\ jobs = <<>>
    /\ works = [n \in PipelineNames |-> NoWork]
    /\ pc = "idle"
    /\ obj = parent
    /\ fresh = TRUE
    /\ recent = NoJob
    /\ index = 0
    /\ queued = TRUE
    /\ edits = 0 /\ faults = 0

Controller ==
    \/ Get \/ ListJobs \/ UpdateCounters
    \/ NoPipeline \/ WaitForJob \/ SuspendJob \/ MarkFailed
    \/ AllDone \/ cleanupJobs \/ cleanupWorks \/ Return
    \/ \E n \in PipelineNames : DeleteWork(n)
    \/ MarkRunning \/ RemoveManualReconciliationLabel \/ NoLabelToRemove
    \/ applyResources \/ Conflict

Faults == SuspendFails \/ CleanupJobsFails \/ ApplyFails \/ Abandon

PodOf(i) ==
    \/ WorkCreator(i)
    \/ \E status \in BOOLEAN : StatusWriter(i, status)
    \/ PodRestarts(i)
    \/ JobCompletes(i) \/ JobFails(i) \/ JobIsSuspended(i)

User == EditSpec \/ RequestManualReconciliation

Next ==
    \/ Controller
    \/ Faults
    \/ \E i \in DOMAIN jobs : PodOf(i)
    \/ \E n \in PipelineNames : RemoveWork(n)
    \/ User

Spec == Init /\ [][Next]_vars

\* The controller's worker goroutine takes what is queued, and every pod runs.
Fairness ==
    /\ WF_vars(Controller)
    /\ \A i \in 1..MaxJobs : WF_vars(i \in DOMAIN jobs /\ PodOf(i))

FairSpec == Spec /\ Fairness
-----------------------------------------------------------------------------
(* Properties *)

\* The types of the variables.
TypeOK ==
    /\ parent \in Parent /\ obj \in Parent
    /\ jobs \in Seq(Job)
    /\ works \in [PipelineNames -> Work]
    /\ pc \in {"idle", "list", "counters", "decide", "apply",
              "cleanupJobs", "cleanupWorks", "finished"}
    /\ recent \in [id : Nat, phase : Phases \cup {"none"}]
    /\ index \in Nat
    /\ fresh \in BOOLEAN /\ queued \in BOOLEAN
    /\ edits \in Nat /\ faults \in Nat

\* Two pods of one workflow never run at the same time: ReconcileConfigure
\* creates a Job only after it has seen the newest one stopped, whatever was
\* edited, suspended or lost between that look and the creation.
OnlyLatestJobRuns ==
    \A i \in DOMAIN jobs : isRunning(jobs[i]) => i = Len(jobs)

\* The last that was written to the Work of pipeline n is the output of v, and
\* the Work is there, unless it was already being deleted at the time.
HasOutput(n, v) ==
    works[n].version = v /\ works[n].phase \in {"live", "doomed", "lost"}

\* When ReconcileConfigure reports the workflow finished (abort = false), the
\* Work of each pipeline of the version it reconciled has the output of that
\* version, and the Work of any other pipeline is gone or being deleted.  A
\* pipeline that was taken out and put back before its old Work was gone has
\* written to that Work and loses it, see NoWorkLost; no other one does.
FinishedMeansWorksCurrent ==
    pc = "finished" /\ Len(Resources) > 0 =>
        \A n \in PipelineNames :
            IF n \in CurrentNames THEN HasOutput(n, obj.hash)
                                  ELSE works[n].phase # "live"

\* When ReconcileConfigure reports the workflow finished, the Work of every
\* pipeline of the version is on the API server.
NoWorkLost ==
    pc = "finished" => \A n \in CurrentNames : works[n].phase \notin {"none", "lost"}

\* The status counts a failure only while the newest Job is the one that
\* failed or was suspended: before the first Job of a new run is created the
\* counter of the earlier failure has been reset on the API server.
FailureIsLatest ==
    parent.failed = 1 => jobs # <<>> /\ isFailed(jobs[Len(jobs)])

\* Every behaviour of the controller executes pipelines one at a time and in
\* order: the newest Job, seen as the run of PipelineRun, takes its steps.
LatestRun ==
    IF jobs = <<>>
      THEN [hash |-> "none", pipe |-> 0, phase |-> "none"]
      ELSE LET job == jobs[Len(jobs)]
           IN  [hash |-> job.hash, pipe |-> job.pipe, phase |-> job.phase]

Promised == INSTANCE PipelineRun WITH run <- LatestRun

PipelinesRunInOrder == Promised!Spec

\* ConfigureWorkflowCompleted is True only when the newest Job is a run of the
\* last pipeline of its version, past its status-writer.
CompletedIsEarned ==
    parent.cond = "true" =>
        /\ jobs # <<>>
        /\ LET job == jobs[Len(jobs)]
           IN  job.pipe = Count[job.hash] /\ job.stage = 2

\* Once the edits stop, the status settles on the outcome of a run of the
\* version that was asked for last.
Settled ==
    Count[parent.hash] > 0 =>
    /\ ~parent.manual /\ jobs # <<>>
    /\ LET job == jobs[Len(jobs)]
       IN  /\ job.hash = parent.hash
           /\ \/ parent.cond = "true" /\ job.phase = "complete" /\ job.pipe = Count[job.hash]
              \/ parent.cond = "failed" /\ isFailed(job)

StatusSettles == <>[]Settled

\* "Pipelines are still in progress" is not the last word on a workflow.
InProgressEnds == (parent.cond = "running") ~> (parent.cond # "running")

\* "A Configure Pipeline has failed" is said only of a Job that failed.
FailedMeansJobFailed ==
    parent.cond = "failed" => \E i \in DOMAIN jobs : jobs[i].phase = "failed"
=============================================================================
