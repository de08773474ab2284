--------------------------- MODULE WorkflowProofs ---------------------------
(***************************************************************************)
(* Theorems about module Workflow, for every set of versions, every list   *)
(* of pipelines and every bound.  All of them rest on one inductive        *)
(* invariant, IInv.                                                        *)
(***************************************************************************)
EXTENDS Workflow, TLAPS

Last == jobs[Len(jobs)]

\* Every Job is a run of a pipeline its version has, and a complete one is
\* past its status-writer.
JobsOK ==
    \A i \in DOMAIN jobs :
        /\ jobs[i].pipe \in 1..Count[jobs[i].hash]
        /\ jobs[i].phase = "complete" => jobs[i].stage = 2

\* The newest Job is never cleaned up.
LastExists == jobs # <<>> => Last.phase # "deleted"

\* After the Jobs have been listed no Job is added, so the listed one is
\* still the newest; the only change it may have seen since is its end.
SnapshotOK ==
    pc \notin {"idle", "list"} =>
        /\ recent.id = Len(jobs)
        /\ IF jobs = <<>> THEN recent.phase = "none"
                          ELSE recent.phase \in {"running", Last.phase}

\* pipelineIndex in terms of the newest Job.
IndexOK ==
    pc \in {"counters", "decide"} =>
        index = IF jobs # <<>> /\ ~obj.manual /\ Last.hash = obj.hash
                  THEN IF recent.phase = "complete" THEN Last.pipe ELSE Last.pipe - 1
                  ELSE 0

\* A Job is about to be created: nothing runs, and the pipeline before the
\* new one has completed at the same version.
ApplyOK ==
    pc = "apply" =>
        /\ index < Len(Resources)
        /\ jobs # <<>> => Last.phase # "running"
        /\ index > 0 => /\ jobs # <<>>
                        /\ Last.hash = obj.hash
                        /\ Last.pipe = index
                        /\ Last.phase = "complete"

\* Only the last pipeline's completion leads to the cleanup.
CleanupOK ==
    pc \in {"cleanupJobs", "cleanupWorks"} \/ (pc = "finished" /\ Len(Resources) > 0) =>
        /\ jobs # <<>>
        /\ Last.hash = obj.hash
        /\ Last.pipe = Count[obj.hash]
        /\ Last.phase = "complete"

\* Only the controller writes the failure counter, and it has reset it by the
\* time it decides on the first pipeline.
FailedOK ==
    /\ pc # "idle" => parent.failed = obj.failed
    /\ pc \in {"decide", "apply"} /\ index = 0 => obj.failed = 0

\* The Works of the pipelines up to the newest Job's have its version's output.
WorksOK ==
    jobs # <<>> =>
        \A i \in 1..Last.pipe :
            i < Last.pipe \/ Last.stage > 0 =>
                HasOutput(Pipelines[Last.hash][i], Last.hash)

IInv ==
    /\ TypeOK /\ OnlyLatestJobRuns /\ FailureIsLatest /\ FinishedMeansWorksCurrent
    /\ JobsOK /\ LastExists /\ SnapshotOK /\ IndexOK /\ ApplyOK /\ CleanupOK
    /\ FailedOK /\ WorksOK

-----------------------------------------------------------------------------
(* Lemmas about the state *)

\* A pod's step replaces one Job of the list.
LEMMA ReplaceJob ==
    ASSUME NEW s \in Seq(Job), NEW i \in DOMAIN s, NEW job \in Job
    PROVE  LET t == [s EXCEPT ![i] = job]
           IN  /\ t \in Seq(Job) /\ Len(t) = Len(s) /\ DOMAIN t = DOMAIN s
               /\ t[i] = job
               /\ \A k \in DOMAIN s : k # i => t[k] = s[k]
  OBVIOUS

\* Facts about the list of Jobs that every step uses.
LEMMA JobFacts ==
    ASSUME TypeOK
    PROVE  /\ DOMAIN jobs = 1..Len(jobs)
           /\ Len(jobs) \in Nat
           /\ \A i \in DOMAIN jobs : jobs[i] \in Job
           /\ jobs # <<>> => Len(jobs) > 0 /\ Len(jobs) \in DOMAIN jobs /\ Last \in Job
           /\ jobs = <<>> => Len(jobs) = 0
  BY DEF TypeOK, Last

\* Facts about a version's pipelines: they have distinct names.
LEMMA PipelineFacts ==
    ASSUME NEW v \in Versions
    PROVE  /\ Count[v] = Len(Pipelines[v]) /\ Count[v] \in Nat
           /\ DOMAIN Pipelines[v] = 1..Count[v]
           /\ \A i \in 1..Count[v] : Pipelines[v][i] \in PipelineNames
           /\ \A i, k \in 1..Count[v] : Pipelines[v][i] = Pipelines[v][k] => i = k
  <1>1. Pipelines[v] \in Seq(PipelineNames)
    BY WorkflowAssumption
  <1>2. Count[v] = Len(Pipelines[v])
    BY DEF Count
  <1>3. DOMAIN Pipelines[v] = 1..Count[v] /\ Count[v] \in Nat
    BY <1>1, <1>2
  <1>4. \A i \in 1..Count[v] : Pipelines[v][i] \in PipelineNames
    BY <1>1, <1>2
  <1>5. \A i, k \in 1..Count[v] : Pipelines[v][i] = Pipelines[v][k] => i = k
    BY ZenonT(30), <1>3, WorkflowAssumption
  <1> QED
    BY ZenonT(30), <1>2, <1>3, <1>4, <1>5

\* The most recent Job is the last of the list.
LEMMA MostRecentIsLast ==
    ASSUME TypeOK, LastExists
    PROVE  MostRecentJob = IF jobs = <<>> THEN NoJob
                           ELSE [id |-> Len(jobs), phase |-> Last.phase]
  <1>1. CASE jobs = <<>>
    BY <1>1 DEF MostRecentJob
  <1>2. CASE jobs # <<>>
    <2>1. Exists(Len(jobs)) /\ Len(jobs) \in DOMAIN jobs
      BY ZenonT(30), <1>2, JobFacts DEF LastExists, Exists, Last
    <2>2. \A i \in DOMAIN jobs :
             (Exists(i) /\ \A k \in DOMAIN jobs : k > i => ~Exists(k)) <=> i = Len(jobs)
      BY <2>1, JobFacts
    <2>3. (CHOOSE i \in DOMAIN jobs :
              Exists(i) /\ \A k \in DOMAIN jobs : k > i => ~Exists(k)) = Len(jobs)
      BY ZenonT(30), <2>1, <2>2
    <2> QED
      BY ZenonT(30), <1>2, <2>1, <2>3 DEF MostRecentJob, Last
  <1> QED
    BY <1>1, <1>2

\* Which pipeline a listed Job is a run of.
LEMMA JobMatches ==
    ASSUME TypeOK, JobsOK, NEW v \in Versions, NEW i \in 1..Count[v],
           NEW job, job.id = Len(jobs)
    PROVE  jobIsForPipeline(v, i, job) <=> jobs # <<>> /\ Last.hash = v /\ Last.pipe = i
  BY JobFacts, PipelineFacts DEF jobIsForPipeline, NameOf, JobsOK, Last, Job

\* nextPipelineIndex in terms of the newest Job.
LEMMA NextIndex ==
    ASSUME TypeOK, JobsOK, NEW job, job.id = Len(jobs),
           jobs # <<>> => job.phase \in {"running", "failed", "suspended", "complete"}
    PROVE  nextPipelineIndex(obj, job) =
               IF jobs # <<>> /\ ~obj.manual /\ Last.hash = obj.hash
                 THEN IF job.phase = "complete" THEN Last.pipe ELSE Last.pipe - 1
                 ELSE 0
  <1> DEFINE matching == {i \in DOMAIN Pipelines[obj.hash] : jobIsForPipeline(obj.hash, i, job)}
  <1>1. obj.hash \in Versions
    BY DEF TypeOK, Parent
  <1>2. CASE jobs # <<>> /\ Last.hash = obj.hash
    <2>1. Last.pipe \in 1..Count[obj.hash]
      BY ZenonT(30), <1>2, JobFacts DEF JobsOK, Last
    <2>2. matching = {Last.pipe}
      BY SMTT(30), <1>1, <1>2, <2>1, JobMatches, PipelineFacts
    <2>3. (CHOOSE i \in matching : TRUE) = Last.pipe
      BY <2>2
    <2>4. (isFailed(job) \/ isRunning(job)) <=> job.phase # "complete"
      BY <1>2 DEF isFailed, isRunning
    <2> HIDE DEF matching
    <2>5. nextPipelineIndex(obj, job) =
            IF obj.manual \/ matching = {} THEN 0
            ELSE LET i == CHOOSE i \in matching : TRUE
                 IN  IF isFailed(job) \/ isRunning(job) THEN i - 1 ELSE i
      BY DEF nextPipelineIndex, matching
    <2> QED
      BY ZenonT(30), <1>2, <2>2, <2>3, <2>4, <2>5
  <1>3. CASE ~(jobs # <<>> /\ Last.hash = obj.hash)
    <2>1. matching = {}
      BY ZenonT(60), <1>1, <1>3, JobMatches, PipelineFacts
    <2> QED
      BY ZenonT(30), <1>3, <2>1 DEF nextPipelineIndex
  <1> QED
    BY <1>2, <1>3

-----------------------------------------------------------------------------
(* IInv is an invariant: the initial states, then one step per action *)

\* A parent without Jobs satisfies the invariant.
LEMMA InitInv == Init => IInv
  <1> SUFFICES ASSUME Init PROVE IInv
    OBVIOUS
  <1>1. TypeOK
    BY DEF Init, TypeOK, Parent, Conditions, NoJob, Work, NoWork
  <1> QED
    BY <1>1 DEF Init, IInv, OnlyLatestJobRuns, FailureIsLatest, FinishedMeansWorksCurrent,
       JobsOK, LastExists, SnapshotOK, IndexOK, ApplyOK, CleanupOK, FailedOK, WorksOK, HasOutput

\* What the parts of IInv say about the list of Jobs and the Works.
JobsInv == OnlyLatestJobRuns /\ JobsOK /\ LastExists /\ WorksOK

\* What they say about the controller.
ControlInv ==
    /\ FailureIsLatest /\ FinishedMeansWorksCurrent
    /\ SnapshotOK /\ IndexOK /\ ApplyOK /\ CleanupOK /\ FailedOK

\* What is said of Jobs and Works only depends on them.
LEMMA JobsInvFrame ==
    ASSUME JobsInv, UNCHANGED <<jobs, works>>
    PROVE  JobsInv'
  BY DEF JobsInv, OnlyLatestJobRuns, JobsOK, LastExists, WorksOK, HasOutput, Last, isRunning

\* The user and the controllers that edit the parent keep the invariant.
LEMMA UserInv ==
    ASSUME IInv, User
    PROVE  IInv'
  <1>1. PICK p : /\ Edit(p)
                 /\ \/ \E v \in Versions : p = [parent EXCEPT !.hash = v]
                    \/ p = [parent EXCEPT !.manual = TRUE]
    BY ZenonT(30) DEF User, EditSpec, RequestManualReconciliation
  <1>2. p \in Parent /\ p.failed = parent.failed
    BY ZenonT(30), <1>1 DEF IInv, TypeOK, Parent
  <1>3. TypeOK'
    <2>1. edits \in Nat /\ edits' = edits + 1
      BY <1>1 DEF IInv, TypeOK, Edit
    <2>2. edits' \in Nat
      BY <2>1
    <2> QED
      BY <1>1, <1>2, <2>2, Zenon DEF IInv, TypeOK, Edit
  <1>4. JobsInv'
    BY <1>1, JobsInvFrame DEF IInv, JobsInv, Edit
  <1>5. ControlInv'
    BY <1>1, <1>2 DEF IInv, ControlInv, Edit, FailureIsLatest, FinishedMeansWorksCurrent, HasOutput, SnapshotOK,
       IndexOK, ApplyOK, CleanupOK, FailedOK, Last, Resources, CurrentNames, isFailed
  <1> QED
    BY ZenonT(30), <1>3, <1>4, <1>5 DEF IInv, JobsInv, ControlInv

\* A step of the pod of Job i leaves the list of Jobs and the controller's
\* view of it in order: the Job ran, so it is the newest, and no decision
\* that needs a stopped Job has been taken.
LEMMA PodFrame ==
    ASSUME IInv, NEW i \in DOMAIN jobs, isRunning(jobs[i]),
           NEW job \in Job, PodStep(i, job),
           job.hash = jobs[i].hash, job.pipe = jobs[i].pipe,
           job.phase # "deleted", job.phase = "complete" => job.stage = 2,
           parent'.failed = parent.failed
    PROVE  /\ jobs' \in Seq(Job) /\ jobs' # <<>>
           /\ i = Len(jobs) /\ Last' = job
           /\ OnlyLatestJobRuns' /\ JobsOK' /\ LastExists'
           /\ ControlInv'
  <1>1. i = Len(jobs) /\ jobs # <<>> /\ isRunning(Last)
    BY JobFacts DEF IInv, OnlyLatestJobRuns, Last
  <1>2. /\ jobs' \in Seq(Job) /\ Len(jobs') = Len(jobs) /\ DOMAIN jobs' = DOMAIN jobs
        /\ jobs'[i] = job
        /\ \A k \in DOMAIN jobs : k # i => jobs'[k] = jobs[k]
    BY ZenonT(60), ReplaceJob DEF IInv, TypeOK, PodStep
  <1>3. jobs' # <<>> /\ Last' = job
    BY <1>1, <1>2, JobFacts DEF Last, IInv
  <1>4. OnlyLatestJobRuns' /\ JobsOK' /\ LastExists'
    BY <1>1, <1>2, <1>3 DEF IInv, OnlyLatestJobRuns, JobsOK, LastExists, isRunning
  <1>5. parent'.failed # 1
    BY ZenonT(30), <1>1 DEF IInv, FailureIsLatest, isFailed, isRunning, Last
  <1>6. FailureIsLatest'
    BY ZenonT(30), <1>5 DEF FailureIsLatest
  <1>7. /\ pc' = pc /\ obj' = obj /\ recent' = recent /\ index' = index
        /\ pc \notin {"apply", "cleanupJobs", "cleanupWorks"}
        /\ pc = "finished" => ~(Len(Resources) > 0)
    BY ZenonT(30), <1>1 DEF PodStep, IInv, ApplyOK, CleanupOK, isRunning
  <1>8. FinishedMeansWorksCurrent' /\ ApplyOK' /\ CleanupOK' /\ FailedOK'
    BY <1>7 DEF IInv, FinishedMeansWorksCurrent, HasOutput, ApplyOK, CleanupOK, FailedOK, Resources
  <1>9. SnapshotOK'
    BY ZenonT(30), <1>1, <1>2, <1>3, <1>7 DEF IInv, SnapshotOK, isRunning
  <1>10. IndexOK'
    BY ZenonT(30), <1>1, <1>3, <1>7 DEF IInv, IndexOK, Last
  <1> QED
    BY ZenonT(30), <1>1, <1>2, <1>3, <1>4, <1>6, <1>8, <1>9, <1>10 DEF ControlInv

\* The same, with the Works, for a step that writes no Work.
LEMMA PodKeepsWorks ==
    ASSUME IInv, NEW i \in DOMAIN jobs, isRunning(jobs[i]),
           NEW job \in Job, PodStep(i, job),
           job.hash = jobs[i].hash, job.pipe = jobs[i].pipe,
           job.phase # "deleted", job.phase = "complete" => job.stage = 2,
           job.stage > 0 => jobs[i].stage > 0,
           parent'.failed = parent.failed, works' = works, parent' \in Parent,
           fresh' \in BOOLEAN, queued' \in BOOLEAN, faults' \in Nat
    PROVE  IInv'
  <1>1. /\ jobs' \in Seq(Job) /\ jobs' # <<>> /\ i = Len(jobs) /\ Last' = job
        /\ OnlyLatestJobRuns' /\ JobsOK' /\ LastExists' /\ ControlInv'
    BY PodFrame
  <1>2. TypeOK'
    BY <1>1, Zenon DEF IInv, TypeOK, PodStep
  <1>3. Last = jobs[i] /\ jobs # <<>>
    BY <1>1, JobFacts DEF Last, IInv
  <1>4. WorksOK'
    BY ZenonT(30), <1>1, <1>3 DEF IInv, WorksOK, HasOutput
  <1> QED
    BY ZenonT(30), <1>1, <1>2, <1>4 DEF IInv, ControlInv

\* The containers of a pod and the end of a Job keep the invariant.
LEMMA PodInv ==
    ASSUME IInv, NEW i \in DOMAIN jobs, PodOf(i)
    PROVE  IInv'
  <1>1. CASE WorkCreator(i)
    <2> DEFINE job == [jobs[i] EXCEPT !.stage = 1]
    <2>1. jobs[i] \in Job /\ job \in Job /\ job.hash = jobs[i].hash /\ job.pipe = jobs[i].pipe
          /\ job.phase = "running" /\ job.stage = 1
      BY <1>1, JobFacts DEF IInv, WorkCreator, isRunning, Job
    <2>2. /\ jobs' \in Seq(Job) /\ jobs' # <<>> /\ i = Len(jobs) /\ Last' = job
          /\ OnlyLatestJobRuns' /\ JobsOK' /\ LastExists' /\ ControlInv'
      BY ZenonT(30), <1>1, <2>1, PodFrame DEF WorkCreator
    <2>3. /\ NameOf(jobs[i]) \in PipelineNames
          /\ jobs[i].hash \in Versions
          /\ jobs[i].pipe \in 1..Count[jobs[i].hash]
          /\ works \in [PipelineNames -> Work]
      BY ZenonT(30), <2>1, PipelineFacts DEF IInv, TypeOK, JobsOK, NameOf, Job
    <2>4. works' = [works EXCEPT ![NameOf(jobs[i])] = Written(@, jobs[i].hash)]
      BY ZenonT(30), <1>1 DEF WorkCreator
    <2> DEFINE work == Written(works[NameOf(jobs[i])], jobs[i].hash)
    <2>9. work \in Work /\ work.version = jobs[i].hash /\ work.phase \in {"live", "doomed", "lost"}
      BY <2>3 DEF Written, Work
    <2> HIDE DEF work
    <2>5. /\ works' \in [PipelineNames -> Work] /\ works'[NameOf(jobs[i])] = work
          /\ \A n \in PipelineNames : n # NameOf(jobs[i]) => works'[n] = works[n]
      BY ZenonT(30), <2>3, <2>4, <2>9 DEF work
    <2>6. TypeOK'
      BY <1>1, <2>2, <2>5, Zenon DEF IInv, TypeOK, WorkCreator, PodStep
    <2>7. Last = jobs[i] /\ jobs # <<>>
      BY <2>2, JobFacts DEF Last, IInv
    <2>8. WorksOK'
      <3> SUFFICES ASSUME NEW k \in 1..jobs[i].pipe
                   PROVE  /\ works'[Pipelines[jobs[i].hash][k]].version = jobs[i].hash
                          /\ works'[Pipelines[jobs[i].hash][k]].phase \in {"live", "doomed", "lost"}
        BY ZenonT(30), <2>1, <2>2 DEF WorksOK, HasOutput
      <3>1. k \in 1..Count[jobs[i].hash]
        BY <2>3, PipelineFacts
      <3>2. CASE k = jobs[i].pipe
        BY ZenonT(30), <3>2, <2>5, <2>9 DEF NameOf
      <3>3. CASE k # jobs[i].pipe
        <4>1. Pipelines[jobs[i].hash][k] \in PipelineNames
              /\ Pipelines[jobs[i].hash][k] # NameOf(jobs[i])
          BY ZenonT(30), <3>1, <3>3, <2>3, PipelineFacts DEF NameOf
        <4>2. HasOutput(Pipelines[jobs[i].hash][k], jobs[i].hash)
          BY <3>1, <3>3, <2>3, <2>7, PipelineFacts DEF IInv, WorksOK, HasOutput
        <4> QED
          BY ZenonT(30), <4>1, <4>2, <2>5 DEF HasOutput
      <3> QED
        BY ZenonT(30), <3>2, <3>3
    <2> QED
      BY ZenonT(30), <2>2, <2>6, <2>8 DEF IInv, ControlInv
  <1>0. /\ jobs[i] \in Job /\ parent \in Parent /\ faults \in Nat
        /\ fresh \in BOOLEAN /\ queued \in BOOLEAN
    BY JobFacts DEF IInv, TypeOK
  <1>2. ASSUME NEW status \in BOOLEAN, StatusWriter(i, status) PROVE IInv'
    <2> DEFINE job == [jobs[i] EXCEPT !.stage = 2]
    <2>1. job \in Job /\ job.hash = jobs[i].hash /\ job.pipe = jobs[i].pipe
          /\ job.phase = "running" /\ jobs[i].stage > 0
      BY <1>0, <1>2 DEF StatusWriter, isRunning, Job
    <2>2. parent' \in Parent /\ parent'.failed = parent.failed
      BY ZenonT(30), <1>0, <1>2 DEF StatusWriter, Parent, Conditions
    <2>3. fresh' \in BOOLEAN /\ queued' \in BOOLEAN
      BY <1>2, Zenon DEF StatusWriter
    <2>4. isRunning(jobs[i]) /\ PodStep(i, job) /\ works' = works /\ faults' \in Nat
      BY ZenonT(30), <1>0, <1>2 DEF StatusWriter
    <2> HIDE DEF job
    <2> QED
      BY ZenonT(30), <2>1, <2>2, <2>3, <2>4, PodKeepsWorks
  <1>3. CASE PodRestarts(i)
    <2> DEFINE job == [jobs[i] EXCEPT !.stage = 0]
    <2>1. job \in Job /\ job.hash = jobs[i].hash /\ job.pipe = jobs[i].pipe
          /\ job.phase = "running" /\ ~(job.stage > 0)
      BY <1>0, <1>3 DEF PodRestarts, isRunning, Job
    <2>2. /\ isRunning(jobs[i]) /\ PodStep(i, job)
          /\ works' = works /\ parent' = parent /\ fresh' = fresh /\ queued' = queued
      BY ZenonT(30), <1>3 DEF PodRestarts
    <2>3. faults' \in Nat
      BY <1>0, <1>3 DEF PodRestarts
    <2>4. fresh' \in BOOLEAN /\ queued' \in BOOLEAN
      BY <1>0, <2>2, Zenon
    <2>5. parent' \in Parent /\ parent'.failed = parent.failed
      BY <1>0, <2>2, Zenon
    <2> HIDE DEF job
    <2> QED
      BY ZenonT(30), <2>1, <2>2, <2>3, <2>4, <2>5, PodKeepsWorks
  <1>4. ASSUME NEW phase \in {"complete", "failed", "suspended"}, JobEnds(i, phase) PROVE IInv'
    <2> DEFINE job == [jobs[i] EXCEPT !.phase = phase]
    <2>1. job \in Job /\ job.hash = jobs[i].hash /\ job.pipe = jobs[i].pipe
          /\ job.phase = phase /\ job.stage = jobs[i].stage
          /\ (phase = "complete" => job.stage = 2)
      BY ZenonT(30), <1>0, <1>4 DEF JobEnds, Job, Phases
    <2>2. isRunning(jobs[i]) /\ PodStep(i, job) /\ UNCHANGED <<parent, works, fresh, faults>>
      BY <1>4 DEF JobEnds
    <2>3. fresh' \in BOOLEAN /\ queued' \in BOOLEAN
      BY <1>0, <1>4, Zenon DEF JobEnds
    <2>4. parent' \in Parent /\ parent'.failed = parent.failed /\ faults' \in Nat
      BY <1>0, <2>2, Zenon
    <2> HIDE DEF job
    <2> QED
      BY ZenonT(30), <2>1, <2>2, <2>3, <2>4, PodKeepsWorks
  <1> QED
    BY ZenonT(30), <1>1, <1>2, <1>3, <1>4 DEF PodOf, JobCompletes, JobFails, JobIsSuspended

\* A step that ends the reconciliation, and leaves the Jobs and the failure
\* counter alone.
LEMMA IdleInv ==
    ASSUME IInv, TypeOK', pc' = "idle", UNCHANGED <<jobs, works>>,
           parent'.failed = parent.failed
    PROVE  IInv'
  <1>1. JobsInv'
    BY ZenonT(30), JobsInvFrame DEF IInv, JobsInv
  <1>2. ControlInv'
    BY DEF IInv, ControlInv, FailureIsLatest, FinishedMeansWorksCurrent, HasOutput, SnapshotOK, IndexOK,
       ApplyOK, CleanupOK, FailedOK, isFailed
  <1> QED
    BY ZenonT(30), <1>1, <1>2 DEF IInv, JobsInv, ControlInv

\* A write by the controller, in terms of types.
LEMMA WriteType ==
    ASSUME TypeOK, NEW o \in Parent,
           NEW label \in {"idle", "decide", "apply"}, Write(o, label)
    PROVE  TypeOK'
  BY Zenon DEF TypeOK, Write

\* The end of a reconciliation that changes nothing, or fails.
LEMMA EndInv ==
    ASSUME IInv, WaitForJob \/ Return \/ Conflict \/ SuspendFails \/ ApplyFails \/ Abandon
    PROVE  IInv'
  <1>1. /\ pc' = "idle" /\ UNCHANGED <<parent, jobs, works, obj, fresh, recent, index, edits>>
        /\ faults' \in {faults, faults + 1}
    BY DEF WaitForJob, Return, Conflict, SuspendFails, ApplyFails, Abandon, Goto, api
  <1>2. queued' \in BOOLEAN
    BY Zenon DEF WaitForJob, Return, Conflict, SuspendFails, ApplyFails, Abandon, Goto, IInv, TypeOK
  <1>3. faults' \in Nat
    BY <1>1 DEF IInv, TypeOK
  <1>4. TypeOK'
    BY <1>1, <1>2, <1>3, Zenon DEF IInv, TypeOK
  <1> QED
    BY ZenonT(30), <1>1, <1>4, IdleInv

\* Fetching the parent from the API server keeps the invariant.
LEMMA GetInv ==
    ASSUME IInv, Get
    PROVE  IInv'
  <1>1. TypeOK'
    BY Zenon DEF IInv, TypeOK, Get, api
  <1>2. JobsInv'
    BY JobsInvFrame DEF IInv, JobsInv, Get, api
  <1>3. ControlInv'
    BY ZenonT(30) DEF IInv, ControlInv, Get, api, FailureIsLatest, FinishedMeansWorksCurrent, HasOutput, SnapshotOK, IndexOK,
       ApplyOK, CleanupOK, FailedOK, isFailed
  <1> QED
    BY <1>1, <1>2, <1>3 DEF IInv, JobsInv, ControlInv

\* Listing the Jobs makes the snapshot and pipelineIndex what IInv says.
LEMMA ListJobsInv ==
    ASSUME IInv, ListJobs
    PROVE  IInv'
  <1>1. recent' = IF jobs = <<>> THEN NoJob ELSE [id |-> Len(jobs), phase |-> Last.phase]
    BY ZenonT(30), MostRecentIsLast DEF IInv, ListJobs
  <1>2. /\ recent'.id = Len(jobs)
        /\ jobs # <<>> => recent'.phase = Last.phase
        /\ jobs = <<>> => recent'.phase = "none"
        /\ recent' \in [id : Nat, phase : Phases \cup {"none"}]
        /\ jobs # <<>> => recent'.phase \in {"running", "failed", "suspended", "complete"}
    BY ZenonT(30), <1>1, JobFacts DEF IInv, NoJob, Job, Phases, LastExists
  <1>3. index' = IF jobs # <<>> /\ ~obj.manual /\ Last.hash = obj.hash
                   THEN IF recent'.phase = "complete" THEN Last.pipe ELSE Last.pipe - 1
                   ELSE 0
    BY ZenonT(30), <1>2, NextIndex DEF IInv, ListJobs
  <1>4. index' \in Nat
    BY <1>3, JobFacts DEF IInv, JobsOK, Last
  <1>5. TypeOK'
    <2>1. pc' \in {"decide", "counters"}
      BY DEF ListJobs
    <2> QED
      BY <1>2, <1>4, <2>1, Zenon DEF IInv, TypeOK, ListJobs, api
  <1>6. JobsInv'
    BY JobsInvFrame DEF IInv, JobsInv, ListJobs, api
  <1>7. pc' = "decide" /\ index' = 0 => obj.failed = 0
    BY ZenonT(30) DEF IInv, TypeOK, ListJobs, WithCounters, Parent
  <1>8. ControlInv'
    BY ZenonT(30), <1>2, <1>3, <1>7 DEF IInv, ControlInv, ListJobs, api, FailureIsLatest,
       FinishedMeansWorksCurrent, HasOutput, SnapshotOK, IndexOK, ApplyOK, CleanupOK, FailedOK, Last, isFailed
  <1> QED
    BY <1>5, <1>6, <1>8 DEF IInv, JobsInv, ControlInv

\* The update of the counters resets the failure of an earlier run.
LEMMA UpdateCountersInv ==
    ASSUME IInv, UpdateCounters
    PROVE  IInv'
  <1> DEFINE o == WithCounters(obj, index)
  <1>0. obj \in Parent /\ index \in Nat
    BY DEF IInv, TypeOK
  <1>1. /\ o \in Parent /\ o.hash = obj.hash
        /\ o.manual = obj.manual
        /\ index = 0 => o.failed = 0
        /\ o.failed \in {0, obj.failed}
    <2>1. o.hash = obj.hash /\ o.failed = IF index = 0 THEN 0 ELSE obj.failed
      BY <1>0 DEF WithCounters, Parent
    <2>2. o.manual = obj.manual
      BY <1>0 DEF WithCounters, Parent
    <2>3. o \in Parent
      <3> DEFINE f == IF index = 0 THEN 0 ELSE obj.failed
      <3>1. f \in -1..1 /\ index \in Int
        BY <1>0 DEF Parent
      <3>2. o = [obj EXCEPT !.succeeded = index, !.failed = f]
        BY ZenonT(30) DEF WithCounters
      <3> HIDE DEF f, o
      <3> QED
        BY ZenonT(30), <1>0, <3>1, <3>2 DEF Parent
    <2> QED
      BY ZenonT(30), <2>1, <2>2, <2>3
  <1>2. TypeOK'
    BY ZenonT(30), <1>1, WriteType DEF IInv, UpdateCounters
  <1>3. JobsInv'
    BY ZenonT(30), JobsInvFrame DEF IInv, JobsInv, UpdateCounters, Write
  <1> HIDE DEF o
  <1>4. /\ pc = "counters" /\ pc' = "decide" /\ parent' = o /\ obj' = o
        /\ UNCHANGED <<jobs, works, recent, index>>
    BY ZenonT(30) DEF UpdateCounters, Write, o
  <1>5. ControlInv'
    BY <1>1, <1>4 DEF IInv, ControlInv, FailureIsLatest, FinishedMeansWorksCurrent, HasOutput,
       SnapshotOK, IndexOK, ApplyOK, CleanupOK, FailedOK, Last, isFailed
  <1> QED
    BY <1>2, <1>3, <1>5 DEF IInv, JobsInv, ControlInv

\* Where the decision of ReconcileConfigure is taken.
LEMMA DecideFacts ==
    ASSUME IInv, pc = "decide", Len(Resources) > 0
    PROVE  /\ obj.hash \in Versions /\ Len(Resources) = Count[obj.hash]
           /\ index \in 0..Count[obj.hash] /\ Current \in 1..Count[obj.hash]
           /\ index < Count[obj.hash] => Current = index + 1
           /\ index = Count[obj.hash] => Current = index
           /\ JobIsForCurrent <=> jobs # <<>> /\ Last.hash = obj.hash /\ Last.pipe = Current
  <1>1. obj.hash \in Versions
    BY DEF IInv, TypeOK, Parent
  <1>2. Len(Resources) = Count[obj.hash] /\ Count[obj.hash] \in Nat
    BY ZenonT(30), <1>1, PipelineFacts DEF Resources
  <1>3. jobs # <<>> => Last.pipe \in 1..Count[Last.hash]
    BY ZenonT(30), JobFacts DEF IInv, JobsOK, Last
  <1>4. index \in 0..Count[obj.hash]
    BY <1>2, <1>3 DEF IInv, IndexOK
  <1>5. /\ Current \in 1..Count[obj.hash]
        /\ index < Count[obj.hash] => Current = index + 1
        /\ index = Count[obj.hash] => Current = index
    BY <1>2, <1>4 DEF Current
  <1>6. recent.id = Len(jobs)
    BY DEF IInv, SnapshotOK
  <1>7. JobIsForCurrent <=> jobs # <<>> /\ Last.hash = obj.hash /\ Last.pipe = Current
    BY ZenonT(30), <1>1, <1>5, <1>6, JobMatches DEF IInv, JobIsForCurrent
  <1> QED
    BY ZenonT(30), <1>1, <1>2, <1>4, <1>5, <1>7

\* A version without pipelines is finished at once.
LEMMA NoPipelineInv ==
    ASSUME IInv, NoPipeline
    PROVE  IInv'
  <1>1. TypeOK'
    BY Zenon DEF IInv, TypeOK, NoPipeline, Goto, api
  <1>2. JobsInv'
    BY ZenonT(30), JobsInvFrame DEF IInv, JobsInv, NoPipeline, api
  <1>3. ControlInv'
    BY DEF IInv, ControlInv, NoPipeline, Goto, api, FailureIsLatest, FinishedMeansWorksCurrent, HasOutput,
       SnapshotOK, IndexOK, ApplyOK, CleanupOK, FailedOK, Resources, Last, isFailed
  <1> QED
    BY <1>1, <1>2, <1>3 DEF IInv, JobsInv, ControlInv

\* suspendJob only sets the suspend field of the newest Job.
LEMMA SuspendJobInv ==
    ASSUME IInv, SuspendJob
    PROVE  IInv'
  <1>1. /\ pc = "decide" /\ recent.id = Len(jobs) /\ isRunning(recent) /\ jobs # <<>>
    BY DEF IInv, SuspendJob, SuspendsJob, SnapshotOK, isRunning
  <1> DEFINE i == Len(jobs)
             job == [Last EXCEPT !.suspend = TRUE]
  <1>2. i \in DOMAIN jobs /\ Last \in Job
    BY ZenonT(30), <1>1, JobFacts DEF IInv
  <1>3. /\ job \in Job /\ job.hash = Last.hash /\ job.pipe = Last.pipe
        /\ job.phase = Last.phase /\ job.stage = Last.stage
    BY ZenonT(30), <1>2 DEF Job
  <1>4. jobs' = [jobs EXCEPT ![i] = job]
    BY ZenonT(30), <1>1 DEF SuspendJob, Last
  <1> HIDE DEF job
  <1>5. /\ jobs' \in Seq(Job) /\ Len(jobs') = i /\ DOMAIN jobs' = DOMAIN jobs
        /\ jobs'[i] = job
        /\ \A k \in DOMAIN jobs : k # i => jobs'[k] = jobs[k]
    BY ZenonT(30), <1>2, <1>3, <1>4, ReplaceJob DEF IInv, TypeOK
  <1>6. jobs' # <<>> /\ Last' = job
    BY <1>2, <1>5, JobFacts DEF IInv, Last
  <1>7. TypeOK'
    BY <1>5, Zenon DEF IInv, TypeOK, SuspendJob, Goto
  <1>8. OnlyLatestJobRuns' /\ LastExists'
    BY ZenonT(30), <1>1, <1>2, <1>3, <1>5, <1>6 DEF IInv, OnlyLatestJobRuns, LastExists, isRunning
  <1>10. JobsOK'
    BY ZenonT(60), <1>2, <1>3, <1>5 DEF IInv, JobsOK, Last
  <1>11. WorksOK'
    BY ZenonT(30), <1>1, <1>3, <1>6 DEF IInv, WorksOK, HasOutput, SuspendJob
  <1>9. ControlInv'
    BY ZenonT(30), <1>1, <1>3, <1>5, <1>6 DEF IInv, ControlInv, SuspendJob, Goto, FailureIsLatest,
       FinishedMeansWorksCurrent, HasOutput, SnapshotOK, IndexOK, ApplyOK, CleanupOK, FailedOK, isFailed, Last
  <1> QED
    BY ZenonT(30), <1>7, <1>8, <1>9, <1>10, <1>11 DEF IInv, ControlInv

\* A failure is counted only when the newest Job has failed.
LEMMA MarkFailedInv ==
    ASSUME IInv, MarkFailed
    PROVE  IInv'
  <1> DEFINE o == [obj EXCEPT !.cond = "failed", !.failed = 1]
  <1>1. o \in Parent
    <2>1. obj \in Parent /\ 1 \in -1..1
      BY DEF IInv, TypeOK
    <2> QED
      BY ZenonT(30), <2>1 DEF Parent, Conditions
  <1>2. TypeOK'
    BY <1>1, WriteType DEF IInv, MarkFailed
  <1>3. JobsInv'
    BY JobsInvFrame DEF IInv, JobsInv, MarkFailed, Write
  <1>4. jobs # <<>> /\ isFailed(Last)
    BY DEF IInv, MarkFailed, MarksFailed, SnapshotOK, isFailed
  <1>5. ControlInv'
    BY ZenonT(30), <1>4 DEF ControlInv, MarkFailed, Write, FailureIsLatest, FinishedMeansWorksCurrent, HasOutput,
       SnapshotOK, IndexOK, ApplyOK, CleanupOK, FailedOK, Last, isFailed
  <1> QED
    BY <1>2, <1>3, <1>5 DEF IInv, JobsInv, ControlInv

\* The cleanup is only entered after the last pipeline has completed.
LEMMA AllDoneInv ==
    ASSUME IInv, AllDone
    PROVE  IInv'
  <1>1. TypeOK'
    BY Zenon DEF IInv, TypeOK, AllDone, Goto, api
  <1>2. JobsInv'
    BY ZenonT(30), JobsInvFrame DEF IInv, JobsInv, AllDone, api
  <1>3. jobs # <<>> /\ Last.hash = obj.hash /\ Last.pipe = Current /\ ~obj.manual
    BY DecideFacts DEF AllDone
  <1>4. Last.phase = "complete" /\ recent.phase = "complete"
    BY ZenonT(30), <1>3, JobFacts DEF IInv, AllDone, SnapshotOK, LastExists, isRunning, isFailed, Job, Phases
  <1>5. index = Last.pipe
    BY ZenonT(30), <1>3, <1>4 DEF IInv, IndexOK, AllDone
  <1>6. Last.pipe = Count[obj.hash]
    BY SMTT(30), <1>3, <1>5, DecideFacts, JobFacts DEF AllDone
  <1>7. ControlInv'
    BY ZenonT(30), <1>3, <1>4, <1>6 DEF IInv, ControlInv, AllDone, Goto, api, FailureIsLatest,
       FinishedMeansWorksCurrent, HasOutput, SnapshotOK, IndexOK, ApplyOK, CleanupOK, FailedOK, Last, isFailed
  <1> QED
    BY <1>1, <1>2, <1>7 DEF IInv, JobsInv, ControlInv

\* Cardinality is defined by recursion on sets; on the empty set it is 0.
LEMMA NothingCounted == Cardinality({}) = 0
  <1> DEFINE Counts(f) == f = [T \in SUBSET {} |-> IF T = {} THEN 0
                                                  ELSE 1 + f[T \ {CHOOSE x : x \in T}]]
  <1>1. Counts([T \in SUBSET {} |-> 0])
    OBVIOUS
  <1>2. ASSUME NEW f, Counts(f) PROVE f[{}] = 0
    <2>1. {} \in SUBSET {}
      OBVIOUS
    <2> QED
      BY ZenonT(30), <1>2, <2>1
  <1> HIDE DEF Counts
  <1>3. Counts(CHOOSE f : Counts(f))
    BY ZenonT(30), <1>1
  <1>4. (CHOOSE f : Counts(f))[{}] = 0
    BY ZenonT(30), <1>2, <1>3
  <1> QED
    BY ZenonT(30), <1>4 DEF Cardinality, Counts

\* cleanupJobs keeps at least one Job per pipeline, so never deletes the newest.
LEMMA NewestIsKept ==
    ASSUME TypeOK, jobs # <<>>
    PROVE  ~IsOldJob(Len(jobs))
  <1> DEFINE newer == {k \in DOMAIN jobs : k > Len(jobs) /\ Exists(k)
                                          /\ NameOf(jobs[k]) = NameOf(jobs[Len(jobs)])}
  <1>1. newer = {}
    BY JobFacts
  <1>2. Cardinality(newer) = 0
    BY ZenonT(30), <1>1, NothingCounted
  <1>3. ~(Cardinality(newer) >= NumberOfJobsToKeep)
    BY <1>2, WorkflowAssumption
  <1> QED
    BY ZenonT(30), <1>3 DEF IsOldJob

\* Deleting old Jobs, all or some, keeps the newest one.
LEMMA DeleteJobsInv ==
    ASSUME IInv, NEW old, DeleteJobs(old), \A i \in old : IsOldJob(i), faults' \in Nat
    PROVE  IInv'
  <1>1. /\ pc = "cleanupJobs" /\ pc' = "cleanupWorks" /\ jobs # <<>>
        /\ Last.hash = obj.hash /\ Last.pipe = Count[obj.hash] /\ Last.phase = "complete"
        /\ UNCHANGED <<parent, works, obj, fresh, recent, index, edits>>
    BY DEF IInv, DeleteJobs, CleanupOK
  <1>2. Len(jobs) \notin old
    BY ZenonT(30), <1>1, NewestIsKept DEF IInv
  <1>3. DOMAIN jobs = 1..Len(jobs) /\ Len(jobs) \in Nat /\ Len(jobs) \in DOMAIN jobs
    BY ZenonT(30), <1>1, JobFacts DEF IInv
  <1>4. jobs' = [i \in 1..Len(jobs) |->
                    IF i \in old THEN [jobs[i] EXCEPT !.phase = "deleted"] ELSE jobs[i]]
    BY <1>3 DEF DeleteJobs
  <1>5. \A i \in 1..Len(jobs) :
           /\ jobs'[i] \in Job
           /\ jobs'[i].hash = jobs[i].hash /\ jobs'[i].pipe = jobs[i].pipe
           /\ jobs'[i].stage = jobs[i].stage
           /\ jobs'[i].phase \in {jobs[i].phase, "deleted"}
    BY ZenonT(60), <1>3, <1>4, JobFacts DEF IInv, Job, Phases
  <1>6. jobs' \in Seq(Job) /\ Len(jobs') = Len(jobs) /\ DOMAIN jobs' = 1..Len(jobs)
    BY <1>3, <1>4, <1>5
  <1>7. Last' = Last /\ jobs' # <<>>
    BY <1>2, <1>3, <1>4, <1>6 DEF Last
  <1>8. TypeOK'
    BY <1>1, <1>6, Zenon DEF IInv, TypeOK, DeleteJobs
  <1>9. OnlyLatestJobRuns' /\ LastExists'
    BY ZenonT(30), <1>1, <1>3, <1>5, <1>6, <1>7 DEF IInv, OnlyLatestJobRuns, LastExists, isRunning
  <1>10. JobsOK'
    BY ZenonT(30), <1>3, <1>5, <1>6 DEF IInv, JobsOK
  <1>11. WorksOK'
    BY ZenonT(30), <1>1, <1>7 DEF IInv, WorksOK, HasOutput
  <1>12. FailureIsLatest'
    BY ZenonT(30), <1>1, <1>6, <1>7 DEF IInv, FailureIsLatest, Last
  <1>13. ControlInv'
    BY ZenonT(30), <1>1, <1>6, <1>7, <1>12 DEF IInv, ControlInv, FinishedMeansWorksCurrent, HasOutput,
       SnapshotOK, IndexOK, ApplyOK, CleanupOK, FailedOK
  <1> QED
    BY ZenonT(30), <1>8, <1>9, <1>10, <1>11, <1>13 DEF IInv, ControlInv

\* cleanupJobs keeps the invariant, whether or not a delete fails.
LEMMA CleanupJobsInv ==
    ASSUME IInv, cleanupJobs \/ CleanupJobsFails
    PROVE  IInv'
  <1>1. faults' \in Nat
    BY DEF IInv, TypeOK, cleanupJobs, CleanupJobsFails
  <1>2. CASE cleanupJobs
    <2> DEFINE old == {i \in DOMAIN jobs : IsOldJob(i)}
    <2>1. DeleteJobs(old) /\ \A i \in old : IsOldJob(i)
      BY <1>2 DEF cleanupJobs
    <2> QED
      BY ZenonT(30), <1>1, <2>1, DeleteJobsInv
  <1>3. CASE CleanupJobsFails
    <2>1. PICK first \in DOMAIN jobs :
             DeleteJobs({i \in DOMAIN jobs :
                            /\ IsOldJob(i)
                            /\ NameOf(jobs[i]) = NameOf(jobs[first]) => i < first})
      BY <1>3 DEF CleanupJobsFails
    <2> DEFINE old == {i \in DOMAIN jobs :
                          /\ IsOldJob(i)
                          /\ NameOf(jobs[i]) = NameOf(jobs[first]) => i < first}
    <2>2. DeleteJobs(old) /\ \A i \in old : IsOldJob(i)
      BY ZenonT(30), <2>1
    <2> QED
      BY ZenonT(30), <1>1, <2>2, DeleteJobsInv
  <1> QED
    BY ZenonT(30), <1>2, <1>3

\* The pipelines of the version are up to the newest Job's during the cleanup.
LEMMA CleanupFacts ==
    ASSUME IInv, pc = "cleanupWorks"
    PROVE  /\ jobs # <<>> /\ obj.hash \in Versions
           /\ Last.hash = obj.hash /\ Last.pipe = Count[obj.hash] /\ Last.stage = 2
           /\ \A i \in 1..Count[obj.hash] :
                 /\ Resources[i] \in CurrentNames /\ Resources[i] \in PipelineNames
                 /\ HasOutput(Resources[i], obj.hash)
           /\ \A n \in CurrentNames : \E i \in 1..Count[obj.hash] : n = Resources[i]
  <1>1. /\ jobs # <<>> /\ Last.hash = obj.hash /\ Last.pipe = Count[obj.hash]
        /\ Last.phase = "complete"
    BY ZenonT(30) DEF IInv, CleanupOK
  <1>2. obj.hash \in Versions /\ Last.stage = 2 /\ Len(jobs) \in DOMAIN jobs
    BY ZenonT(30), <1>1, JobFacts DEF IInv, TypeOK, Parent, JobsOK, Last
  <1>3. \A i \in 1..Count[obj.hash] :
           Resources[i] \in CurrentNames /\ Resources[i] \in PipelineNames
    BY ZenonT(30), <1>2, PipelineFacts DEF Resources, CurrentNames
  <1>4. \A i \in 1..Count[obj.hash] : HasOutput(Resources[i], obj.hash)
    BY <1>1, <1>2 DEF IInv, WorksOK, Resources
  <1>5. \A n \in CurrentNames : \E i \in 1..Count[obj.hash] : n = Resources[i]
    BY ZenonT(60), <1>2, PipelineFacts DEF CurrentNames, Resources
  <1> QED
    BY ZenonT(30), <1>1, <1>2, <1>3, <1>4, <1>5

\* A step that changes neither the Jobs nor the controller keeps what is said
\* of them.
LEMMA StillFrame ==
    ASSUME IInv, UNCHANGED <<parent, jobs, pc, obj, fresh, recent, index>>
    PROVE  /\ OnlyLatestJobRuns' /\ JobsOK' /\ LastExists' /\ FailureIsLatest'
           /\ SnapshotOK' /\ IndexOK' /\ ApplyOK' /\ CleanupOK' /\ FailedOK'
  <1>1. Last' = Last /\ Resources' = Resources /\ DOMAIN jobs' = DOMAIN jobs
    BY ZenonT(30) DEF Last, Resources
  <1>2. OnlyLatestJobRuns' /\ JobsOK' /\ LastExists' /\ FailureIsLatest'
    BY ZenonT(30), <1>1 DEF IInv, OnlyLatestJobRuns, JobsOK, LastExists, FailureIsLatest,
       isRunning, isFailed
  <1>3. SnapshotOK' /\ IndexOK' /\ CleanupOK'
    BY ZenonT(30), <1>1 DEF IInv, SnapshotOK, IndexOK, CleanupOK
  <1>4. ApplyOK' /\ FailedOK'
    BY ZenonT(30), <1>1 DEF IInv, ApplyOK, FailedOK
  <1> QED
    BY ZenonT(30), <1>2, <1>3, <1>4

\* Deleting the Work of another version leaves those of this one alone.
LEMMA DeleteWorkInv ==
    ASSUME IInv, NEW n \in PipelineNames, DeleteWork(n)
    PROVE  IInv'
  <1>1. /\ pc = "cleanupWorks" /\ n \notin CurrentNames
        /\ works' = [works EXCEPT ![n].phase = "deleting"]
        /\ queued' \in {queued, TRUE}
        /\ UNCHANGED <<parent, jobs, pc, obj, fresh, recent, index, edits, faults>>
    BY ZenonT(30) DEF DeleteWork, Goto
  <1>2. works \in [PipelineNames -> Work] /\ works[n] \in Work /\ queued \in BOOLEAN
    BY ZenonT(30) DEF IInv, TypeOK
  <1>3. [works[n] EXCEPT !.phase = "deleting"] \in Work
    BY <1>2 DEF Work
  <1>4. works' \in [PipelineNames -> Work] /\ \A m \in PipelineNames : m # n => works'[m] = works[m]
    BY ZenonT(30), <1>1, <1>2, <1>3
  <1>5. queued' \in BOOLEAN
    BY ZenonT(30), <1>1, <1>2
  <1>6. TypeOK'
    BY <1>1, <1>4, <1>5, Zenon DEF IInv, TypeOK
  <1>7. \A i \in 1..Count[obj.hash] : /\ works'[Resources[i]] = works[Resources[i]]
                                     /\ HasOutput(Resources[i], obj.hash)
    <2> SUFFICES ASSUME NEW i \in 1..Count[obj.hash]
                 PROVE  /\ works'[Resources[i]] = works[Resources[i]]
                        /\ HasOutput(Resources[i], obj.hash)
      OBVIOUS
    <2>1. Resources[i] \in CurrentNames /\ Resources[i] \in PipelineNames
          /\ HasOutput(Resources[i], obj.hash)
      BY ZenonT(30), <1>1, CleanupFacts
    <2>2. Resources[i] # n
      BY ZenonT(30), <1>1, <2>1
    <2> QED
      BY ZenonT(30), <1>4, <2>1, <2>2
  <1>8. WorksOK'
    <2>1. Last' = Last
      BY ZenonT(30), <1>1 DEF Last
    <2>2. Last.hash = obj.hash /\ Last.pipe = Count[obj.hash]
      BY ZenonT(30), <1>1, CleanupFacts
    <2>3. \A i \in 1..Last.pipe : HasOutput(Pipelines[Last.hash][i], Last.hash)'
      BY ZenonT(30), <1>7, <2>1, <2>2 DEF Resources, HasOutput
    <2> QED
      BY ZenonT(30), <2>1, <2>3 DEF WorksOK
  <1>9. FinishedMeansWorksCurrent'
    BY ZenonT(30), <1>1 DEF FinishedMeansWorksCurrent
  <1> QED
    BY ZenonT(30), <1>1, <1>6, <1>8, <1>9, StillFrame DEF IInv

\* When the loop of cleanupWorks ends the other Works have all been deleted.
LEMMA CleanupWorksInv ==
    ASSUME IInv, cleanupWorks
    PROVE  IInv'
  <1>1. /\ pc = "cleanupWorks" /\ pc' = "finished" /\ jobs # <<>>
        /\ Last.hash = obj.hash /\ Last.pipe = Count[obj.hash] /\ Last.phase = "complete"
        /\ UNCHANGED <<parent, jobs, works, obj, fresh, recent, index, queued, edits, faults>>
    BY DEF IInv, cleanupWorks, Goto, CleanupOK, api
  <1>2. TypeOK'
    BY <1>1, Zenon DEF IInv, TypeOK
  <1>3. JobsInv'
    BY ZenonT(30), <1>1, JobsInvFrame DEF IInv, JobsInv
  <1>4. FailureIsLatest'
    BY ZenonT(30), <1>1 DEF IInv, FailureIsLatest, Last, isFailed
  <1>5. Resources' = Resources /\ Last' = Last /\ CurrentNames' = CurrentNames
    BY ZenonT(30), <1>1 DEF Resources, Last, CurrentNames
  <1>6. \A n \in CurrentNames : HasOutput(n, obj.hash)
    BY ZenonT(30), <1>1, CleanupFacts
  <1>7. \A n \in PipelineNames \ CurrentNames : works[n].phase # "live"
    BY ZenonT(30) DEF cleanupWorks
  <1>8. FinishedMeansWorksCurrent'
    BY ZenonT(30), <1>1, <1>5, <1>6, <1>7 DEF FinishedMeansWorksCurrent, HasOutput
  <1>9. SnapshotOK' /\ IndexOK' /\ ApplyOK' /\ CleanupOK' /\ FailedOK'
    BY ZenonT(30), <1>1, <1>5 DEF IInv, SnapshotOK, IndexOK, ApplyOK, CleanupOK, FailedOK
  <1> QED
    BY ZenonT(30), <1>2, <1>3, <1>4, <1>8, <1>9 DEF IInv, JobsInv

\* A Work that goes was being deleted: it either has no output, or it was
\* updated in the meantime and keeps that in its record.
LEMMA RemoveWorkInv ==
    ASSUME IInv, NEW n \in PipelineNames, RemoveWork(n)
    PROVE  IInv'
  <1> DEFINE gone == IF works[n].phase = "doomed" THEN [works[n] EXCEPT !.phase = "lost"]
                                                  ELSE NoWork
  <1>1. /\ works[n].phase \in {"deleting", "doomed"}
        /\ works' = [works EXCEPT ![n] = gone]
        /\ queued' \in {queued, TRUE}
        /\ UNCHANGED <<parent, jobs, pc, obj, fresh, recent, index, edits, faults>>
    BY ZenonT(30) DEF RemoveWork
  <1>2. works \in [PipelineNames -> Work] /\ works[n] \in Work /\ queued \in BOOLEAN
    BY ZenonT(30) DEF IInv, TypeOK
  <1>3. /\ gone \in Work /\ gone.phase # "live"
        /\ works[n].phase = "doomed" => gone.version = works[n].version /\ gone.phase = "lost"
    BY <1>2 DEF Work, NoWork
  <1> HIDE DEF gone
  <1>4. /\ works' \in [PipelineNames -> Work] /\ works'[n] = gone
        /\ \A m \in PipelineNames : m # n => works'[m] = works[m]
    BY ZenonT(30), <1>1, <1>2, <1>3
  <1>5. queued' \in BOOLEAN
    BY ZenonT(30), <1>1, <1>2
  <1>6. TypeOK'
    BY <1>1, <1>4, <1>5, Zenon DEF IInv, TypeOK
  <1>7. \A m \in PipelineNames : \A v \in Versions : HasOutput(m, v) => HasOutput(m, v)'
    BY ZenonT(30), <1>1, <1>3, <1>4 DEF HasOutput
  <1>8. \A m \in PipelineNames : works[m].phase # "live" => works'[m].phase # "live"
    BY ZenonT(30), <1>3, <1>4
  <1>9. WorksOK'
    <2> SUFFICES ASSUME jobs # <<>>, NEW i \in 1..Last.pipe, i < Last.pipe \/ Last.stage > 0
                 PROVE  HasOutput(Pipelines[Last.hash][i], Last.hash)'
      BY ZenonT(30), <1>1 DEF WorksOK, Last
    <2>0. Last' = Last
      BY ZenonT(30), <1>1 DEF Last
    <2>1. HasOutput(Pipelines[Last.hash][i], Last.hash)
      BY ZenonT(30) DEF IInv, WorksOK
    <2>2. Last.hash \in Versions /\ i \in 1..Count[Last.hash]
      BY JobFacts, PipelineFacts DEF IInv, JobsOK, Job, Last
    <2> QED
      BY ZenonT(30), <1>7, <2>0, <2>1, <2>2, PipelineFacts DEF HasOutput
  <1>10. FinishedMeansWorksCurrent'
    <2>1. obj.hash \in Versions
      BY ZenonT(30) DEF IInv, TypeOK, Parent
    <2>2. Resources' = Resources /\ CurrentNames' = CurrentNames
      BY ZenonT(30), <1>1 DEF Resources, CurrentNames
    <2> QED
      BY ZenonT(30), <1>1, <1>7, <1>8, <2>1, <2>2 DEF IInv, FinishedMeansWorksCurrent, HasOutput
  <1> QED
    BY ZenonT(30), <1>1, <1>6, <1>9, <1>10, StillFrame DEF IInv

\* createConfigurePipeline is called: nothing runs, and the pipeline before
\* the current one, if there is one, has completed at this version.
LEMMA CreatesFacts ==
    ASSUME IInv, Creates
    PROVE  /\ pc = "decide" /\ index < Len(Resources)
           /\ jobs # <<>> => Last.phase # "running"
           /\ index > 0 => /\ jobs # <<>> /\ Last.hash = obj.hash /\ Last.pipe = index
                           /\ Last.phase = "complete"
  <1>1. pc = "decide" /\ Len(Resources) > 0 /\ ~isRunning(recent) /\ (JobIsForCurrent => obj.manual)
    BY DEF Creates
  <1>2. jobs # <<>> => recent.phase = Last.phase /\ Last.phase # "running"
    BY ZenonT(30), <1>1 DEF IInv, SnapshotOK, isRunning
  <1>3. CASE index = 0
    BY <1>1, <1>2, <1>3
  <1>4. CASE index # 0
    <2>1. jobs # <<>> /\ ~obj.manual /\ Last.hash = obj.hash
          /\ index = IF recent.phase = "complete" THEN Last.pipe ELSE Last.pipe - 1
      BY ZenonT(30), <1>1, <1>4 DEF IInv, IndexOK
    <2>2. Last.pipe # Current
      BY ZenonT(30), <1>1, <2>1, DecideFacts
    <2>3. Last.pipe \in 1..Count[obj.hash]
      BY ZenonT(30), <2>1, JobFacts DEF IInv, JobsOK, Last
    <2>4. recent.phase = "complete" /\ index = Last.pipe /\ index < Count[obj.hash]
      BY <1>1, <2>1, <2>2, <2>3, DecideFacts
    <2> QED
      BY ZenonT(30), <1>1, <1>2, <2>1, <2>4, DecideFacts
  <1> QED
    BY <1>3, <1>4

\* The steps of createConfigurePipeline before the Job is created.
LEMMA CreatesInv ==
    ASSUME IInv, MarkRunning \/ RemoveManualReconciliationLabel \/ NoLabelToRemove
    PROVE  IInv'
  <1>0. obj \in Parent
    BY DEF IInv, TypeOK
  <1>1. CASE MarkRunning
    <2> DEFINE o == [obj EXCEPT !.cond = "running"]
    <2>1. o \in Parent /\ o.failed = obj.failed
      BY ZenonT(30), <1>0 DEF Parent, Conditions
    <2>2. TypeOK'
      BY ZenonT(30), <1>1, <2>1, WriteType DEF IInv, MarkRunning
    <2>3. parent'.failed = parent.failed /\ pc' = "idle" /\ UNCHANGED <<jobs, works>>
      BY ZenonT(30), <1>1, <2>1, CreatesFacts DEF IInv, FailedOK, MarkRunning, Write
    <2> QED
      BY ZenonT(30), <2>2, <2>3, IdleInv
  <1>2. CASE RemoveManualReconciliationLabel
    <2> DEFINE o == [obj EXCEPT !.manual = FALSE]
    <2>1. o \in Parent /\ o.failed = obj.failed /\ o.hash = obj.hash
      BY ZenonT(30), <1>0 DEF Parent
    <2>2. TypeOK'
      BY ZenonT(30), <1>2, <2>1, WriteType DEF IInv, RemoveManualReconciliationLabel
    <2>3. JobsInv'
      BY ZenonT(30), <1>2, JobsInvFrame DEF IInv, JobsInv, RemoveManualReconciliationLabel, Write
    <2>4. /\ Creates /\ pc' = "apply" /\ parent' = o /\ obj' = o
          /\ UNCHANGED <<jobs, works, recent, index>>
      BY ZenonT(30), <1>2 DEF RemoveManualReconciliationLabel, Write
    <2> HIDE DEF o
    <2>5. ControlInv'
      BY ZenonT(30), <2>1, <2>4, CreatesFacts DEF IInv, ControlInv, FailureIsLatest, FinishedMeansWorksCurrent, HasOutput,
         SnapshotOK, IndexOK, ApplyOK, CleanupOK, FailedOK, Resources, Last, isFailed
    <2> QED
      BY ZenonT(30), <2>2, <2>3, <2>5 DEF IInv, JobsInv, ControlInv
  <1>3. CASE NoLabelToRemove
    <2>1. TypeOK'
      BY <1>3, Zenon DEF IInv, TypeOK, NoLabelToRemove, Goto, api
    <2>2. JobsInv'
      BY ZenonT(30), <1>3, JobsInvFrame DEF IInv, JobsInv, NoLabelToRemove, api
    <2>3. Creates /\ pc' = "apply" /\ UNCHANGED <<parent, obj, jobs, works, recent, index>>
      BY ZenonT(30), <1>3 DEF NoLabelToRemove, Goto, api
    <2>4. ControlInv'
      BY ZenonT(30), <2>3, CreatesFacts DEF IInv, ControlInv, FailureIsLatest, FinishedMeansWorksCurrent, HasOutput,
         SnapshotOK, IndexOK, ApplyOK, CleanupOK, FailedOK, Resources, Last, isFailed
    <2> QED
      BY ZenonT(30), <2>1, <2>2, <2>4 DEF IInv, JobsInv, ControlInv
  <1> QED
    BY ZenonT(30), <1>1, <1>2, <1>3

\* The new Job: the first pipeline, or the one after the completed one.
LEMMA ApplyFacts ==
    ASSUME IInv, applyResources
    PROVE  /\ jobs' \in Seq(Job) /\ jobs' # <<>> /\ Len(jobs') = Len(jobs) + 1
           /\ \A k \in DOMAIN jobs : jobs'[k] = jobs[k]
           /\ Last' = NewJob /\ NewJob \in Job
           /\ Current = index + 1 /\ index + 1 \in 1..Count[obj.hash]
           /\ obj.hash \in Versions
  <1>1. pc = "apply" /\ index < Len(Resources) /\ index \in Nat
    BY DEF IInv, TypeOK, ApplyOK, applyResources
  <1>2. obj.hash \in Versions
    BY ZenonT(30) DEF IInv, TypeOK, Parent
  <1>3. Len(Resources) = Count[obj.hash] /\ Count[obj.hash] \in Nat
    BY ZenonT(30), <1>2, PipelineFacts DEF Resources
  <1>4. Current = index + 1 /\ index + 1 \in 1..Count[obj.hash]
    BY <1>1, <1>3 DEF Current
  <1>5. NewJob \in Job
    BY <1>2, <1>4, <1>3 DEF NewJob, Job, Phases
  <1>6. jobs' = Append(jobs, NewJob) /\ jobs \in Seq(Job)
    BY DEF IInv, TypeOK, applyResources
  <1>7. /\ jobs' \in Seq(Job) /\ Len(jobs') = Len(jobs) + 1 /\ jobs'[Len(jobs) + 1] = NewJob
        /\ \A k \in DOMAIN jobs : jobs'[k] = jobs[k]
    BY <1>5, <1>6
  <1>8. jobs' # <<>> /\ Last' = NewJob
    BY <1>6, <1>7 DEF Last
  <1> QED
    BY ZenonT(30), <1>2, <1>4, <1>5, <1>7, <1>8

\* The Job that applyResources creates is the only one running.
LEMMA ApplyInv ==
    ASSUME IInv, applyResources
    PROVE  IInv'
  <1>1. /\ pc = "apply" /\ pc' = "idle"
        /\ UNCHANGED <<parent, works, obj, fresh, recent, index, edits, faults>>
    BY DEF applyResources, Goto
  <1>2. TypeOK'
    BY <1>1, ApplyFacts, Zenon DEF IInv, TypeOK, applyResources
  <1>3. DOMAIN jobs = 1..Len(jobs) /\ DOMAIN jobs' = 1..(Len(jobs) + 1) /\ Len(jobs) \in Nat
        /\ jobs'[Len(jobs) + 1] = NewJob
    BY ApplyFacts, JobFacts DEF IInv, Last
  <1>4. /\ NewJob.phase = "running" /\ NewJob.stage = 0 /\ NewJob.hash = obj.hash
        /\ NewJob.pipe = index + 1
    BY ZenonT(30), ApplyFacts DEF NewJob
  <1>5. \A k \in DOMAIN jobs : ~isRunning(jobs[k])
    BY <1>1, JobFacts DEF IInv, OnlyLatestJobRuns, ApplyOK, Last, isRunning
  <1>6. OnlyLatestJobRuns' /\ LastExists'
    BY <1>3, <1>4, <1>5, ApplyFacts DEF OnlyLatestJobRuns, LastExists, isRunning
  <1>7. JobsOK'
    BY <1>3, <1>4, ApplyFacts DEF IInv, JobsOK
  <1>8. WorksOK'
    <2> SUFFICES ASSUME NEW i \in 1..(index + 1), i < index + 1
                 PROVE  HasOutput(Pipelines[obj.hash][i], obj.hash)
      BY <1>1, <1>4, ApplyFacts DEF WorksOK, HasOutput
    <2>1. index > 0 /\ index \in Nat /\ i \in 1..index
      BY DEF IInv, TypeOK
    <2>2. jobs # <<>> /\ Last.hash = obj.hash /\ Last.pipe = index /\ Last.phase = "complete"
      BY ZenonT(30), <1>1, <2>1 DEF IInv, ApplyOK
    <2>3. Last.stage = 2
      BY ZenonT(30), <2>2, JobFacts DEF IInv, JobsOK, Last
    <2> QED
      BY <2>1, <2>2, <2>3 DEF IInv, WorksOK, HasOutput
  <1>9. parent.failed # 1
    <2>1. CASE index = 0
      BY <1>1, <2>1 DEF IInv, FailedOK
    <2>2. CASE index # 0
      BY <1>1, <2>2 DEF IInv, TypeOK, ApplyOK, FailureIsLatest, Last, isFailed
    <2> QED
      BY ZenonT(30), <2>1, <2>2
  <1>10. ControlInv'
    BY ZenonT(30), <1>1, <1>9 DEF ControlInv, FailureIsLatest, FinishedMeansWorksCurrent, HasOutput,
       SnapshotOK, IndexOK, ApplyOK, CleanupOK, FailedOK
  <1> QED
    BY ZenonT(30), <1>2, <1>6, <1>7, <1>8, <1>10 DEF IInv, ControlInv

\* Every step of Workflow keeps the invariant: one case per action.
LEMMA StepInv == IInv /\ [Next]_vars => IInv'
  <1> SUFFICES ASSUME IInv, [Next]_vars PROVE IInv'
    OBVIOUS
  <1>1. CASE Controller
    BY ZenonT(30), <1>1, GetInv, ListJobsInv, UpdateCountersInv, NoPipelineInv, EndInv, SuspendJobInv,
       MarkFailedInv, AllDoneInv, CleanupJobsInv, DeleteWorkInv, CleanupWorksInv, CreatesInv,
       ApplyInv
       DEF Controller
  <1>2. CASE Faults
    BY ZenonT(30), <1>2, EndInv, CleanupJobsInv DEF Faults
  <1>3. CASE \E i \in DOMAIN jobs : PodOf(i)
    BY ZenonT(30), <1>3, PodInv
  <1>4. CASE User
    BY ZenonT(30), <1>4, UserInv
  <1>6. CASE \E n \in PipelineNames : RemoveWork(n)
    BY ZenonT(30), <1>6, RemoveWorkInv
  <1>5. CASE UNCHANGED vars
    <2>1. TypeOK'
      BY <1>5, Zenon DEF IInv, TypeOK, vars
    <2>2. JobsInv'
      BY ZenonT(30), <1>5, JobsInvFrame DEF IInv, JobsInv, vars
    <2>3. ControlInv'
      <3>1. UNCHANGED <<parent, jobs, works, pc, obj, fresh, recent, index>>
        BY ZenonT(30), <1>5 DEF vars
      <3>2. /\ Last' = Last /\ Resources' = Resources /\ CurrentNames' = CurrentNames
            /\ DOMAIN jobs' = DOMAIN jobs
        BY ZenonT(30), <3>1 DEF Last, Resources, CurrentNames
      <3>3. FailureIsLatest' /\ FinishedMeansWorksCurrent' /\ ApplyOK' /\ FailedOK'
        BY ZenonT(30), <3>1, <3>2
           DEF IInv, FailureIsLatest, FinishedMeansWorksCurrent, HasOutput, ApplyOK, FailedOK, isFailed, Last
      <3>4. SnapshotOK' /\ IndexOK' /\ CleanupOK'
        BY ZenonT(30), <3>1, <3>2 DEF IInv, SnapshotOK, IndexOK, CleanupOK
      <3> QED
        BY ZenonT(30), <3>3, <3>4 DEF ControlInv
    <2> QED
      BY ZenonT(30), <2>1, <2>2, <2>3 DEF IInv, JobsInv, ControlInv
  <1> QED
    BY ZenonT(30), <1>1, <1>2, <1>3, <1>4, <1>5, <1>6 DEF Next

\* IInv holds in every state of every behaviour of Workflow.
LEMMA Invariance == Spec => []IInv
  BY InitInv, StepInv, PTL DEF Spec

-----------------------------------------------------------------------------
(* The theorems *)

\* The variables of the workflow keep their types.
THEOREM TypeCorrect == Spec => []TypeOK
  <1>1. IInv => TypeOK
    BY ZenonT(30) DEF IInv
  <1> QED
    BY <1>1, Invariance, PTL

\* No two Jobs of a workflow run at the same time, however many versions and
\* pipelines there are and however often the parent is edited.
THEOREM MutualExclusion == Spec => []OnlyLatestJobRuns
  <1>1. IInv => OnlyLatestJobRuns
    BY ZenonT(30) DEF IInv
  <1> QED
    BY <1>1, Invariance, PTL

\* When ReconcileConfigure reports the workflow finished, every pipeline of the
\* version it reconciled has written its Work, nothing has been written to that
\* Work since, and the Works of all other pipelines are gone or being deleted.
THEOREM FinishedIsCurrent == Spec => []FinishedMeansWorksCurrent
  <1>1. IInv => FinishedMeansWorksCurrent
    BY ZenonT(30) DEF IInv
  <1> QED
    BY <1>1, Invariance, PTL

\* A failure is counted only while the newest Job is the one that failed.
THEOREM FailureCounter == Spec => []FailureIsLatest
  <1>1. IInv => FailureIsLatest
    BY ZenonT(30) DEF IInv
  <1> QED
    BY <1>1, Invariance, PTL

\* Every step of the workflow is a step of PipelineRun, or none.
LEMMA StepRefines == IInv /\ IInv' /\ [Next]_vars => [Promised!Next]_LatestRun
  <1> SUFFICES ASSUME IInv, IInv', [Next]_vars
               PROVE  Promised!Next \/ LatestRun' = LatestRun
    BY ZenonT(30)
  <1>0. LatestRun = IF jobs = <<>> THEN [hash |-> "none", pipe |-> 0, phase |-> "none"]
                    ELSE [hash |-> Last.hash, pipe |-> Last.pipe, phase |-> Last.phase]
    BY ZenonT(30) DEF LatestRun, Last
  <1>1. CASE jobs' = jobs
    BY ZenonT(30), <1>1 DEF LatestRun
  <1>2. CASE SuspendJob
    <2>1. recent.id = Len(jobs) /\ jobs # <<>>
      BY ZenonT(30), <1>2 DEF IInv, SuspendJob, SuspendsJob, SnapshotOK, isRunning
    <2>2. Len(jobs) \in DOMAIN jobs /\ Last \in Job /\ jobs \in Seq(Job)
      BY ZenonT(30), <2>1, JobFacts DEF IInv, TypeOK
    <2>3. jobs' = [jobs EXCEPT ![Len(jobs)] = [Last EXCEPT !.suspend = TRUE]]
      BY ZenonT(30), <1>2, <2>1 DEF SuspendJob, Last
    <2>4. [Last EXCEPT !.suspend = TRUE] \in Job
      BY ZenonT(30), <2>2 DEF Job
    <2>5. Len(jobs') = Len(jobs) /\ jobs' # <<>> /\ Last' = [Last EXCEPT !.suspend = TRUE]
      BY <2>2, <2>3, <2>4, ReplaceJob DEF Last
    <2>6. Last'.hash = Last.hash /\ Last'.pipe = Last.pipe /\ Last'.phase = Last.phase
      BY ZenonT(30), <2>2, <2>5 DEF Job
    <2> QED
      BY ZenonT(30), <1>0, <2>1, <2>5, <2>6 DEF LatestRun, Last
  <1>3. ASSUME NEW old, DeleteJobs(old), \A i \in old : IsOldJob(i)
        PROVE  LatestRun' = LatestRun
    <2>1. jobs # <<>>
      BY ZenonT(30), <1>3 DEF IInv, DeleteJobs, CleanupOK
    <2>2. Len(jobs) \notin old /\ Len(jobs) \in DOMAIN jobs /\ DOMAIN jobs = 1..Len(jobs)
          /\ Len(jobs) \in Nat
      BY ZenonT(30), <1>3, <2>1, NewestIsKept, JobFacts DEF IInv
    <2>3. jobs' \in Seq(Job) /\ DOMAIN jobs' = 1..Len(jobs) /\ jobs'[Len(jobs)] = Last
      BY ZenonT(30), <1>3, <2>2 DEF DeleteJobs, IInv, TypeOK, Last
    <2>4. Len(jobs') = Len(jobs) /\ jobs' # <<>> /\ Last' = Last
      BY <2>2, <2>3 DEF Last
    <2> QED
      BY ZenonT(30), <2>1, <2>4 DEF LatestRun, Last
  <1>4. CASE applyResources
    <2>1. LatestRun' = [hash |-> obj.hash, pipe |-> index + 1, phase |-> "running"]
      BY SMTT(30), <1>4, ApplyFacts DEF LatestRun, Last, NewJob
    <2>2. Count[obj.hash] > index /\ index \in Nat /\ obj.hash \in Versions
          /\ Count[obj.hash] \in Nat
      BY SMTT(30), <1>4, ApplyFacts, PipelineFacts DEF IInv, TypeOK
    <2>3. LatestRun.phase # "running"
      BY ZenonT(30), <1>0, <1>4 DEF IInv, ApplyOK, applyResources
    <2>4. CASE index = 0
      BY SMTT(30), <2>1, <2>2, <2>3, <2>4 DEF Promised!Next, Promised!StartFirst
    <2>5. CASE index # 0
      <3>1. LatestRun = [hash |-> obj.hash, pipe |-> index, phase |-> "complete"]
        <4>1. pc = "apply" /\ index > 0
          BY SMTT(30), <1>4, <2>2, <2>5 DEF applyResources
        <4>2. /\ jobs # <<>> /\ Last.hash = obj.hash
              /\ Last.pipe = index /\ Last.phase = "complete"
          BY ZenonT(30), <4>1 DEF IInv, ApplyOK
        <4> QED
          BY ZenonT(30), <1>0, <4>2 DEF LatestRun, Last
      <3> QED
        BY ZenonT(30), <2>1, <2>2, <3>1 DEF Promised!Next, Promised!StartNext
    <2> QED
      BY ZenonT(30), <2>4, <2>5
  <1>5. ASSUME NEW i \in DOMAIN jobs, PodOf(i)
        PROVE  Promised!Next \/ LatestRun' = LatestRun
    <2>0. /\ isRunning(jobs[i])
          /\ \/ PodStep(i, [jobs[i] EXCEPT !.stage = 0])
             \/ PodStep(i, [jobs[i] EXCEPT !.stage = 1])
             \/ PodStep(i, [jobs[i] EXCEPT !.stage = 2])
             \/ PodStep(i, [jobs[i] EXCEPT !.phase = "complete"])
             \/ PodStep(i, [jobs[i] EXCEPT !.phase = "failed"])
             \/ PodStep(i, [jobs[i] EXCEPT !.phase = "suspended"])
      BY ZenonT(30), <1>5 DEF PodOf, WorkCreator, StatusWriter, PodRestarts, JobCompletes, JobFails,
         JobIsSuspended, JobEnds
    <2>1. PICK job : PodStep(i, job) /\ isRunning(jobs[i]) /\
             \/ \E n \in 0..2 : job = [jobs[i] EXCEPT !.stage = n]
             \/ \E phase \in Promised!Outcomes : job = [jobs[i] EXCEPT !.phase = phase]
      BY <2>0 DEF Promised!Outcomes
    <2>2. jobs # <<>> /\ i = Len(jobs) /\ Last \in Job /\ Last = jobs[i] /\ jobs \in Seq(Job)
      BY <2>1, JobFacts DEF IInv, TypeOK, OnlyLatestJobRuns, Last
    <2>3. job \in Job /\ job.hash = Last.hash /\ job.pipe = Last.pipe
      BY ZenonT(30), <2>1, <2>2 DEF Job, Phases, Promised!Outcomes
    <2>4. job.phase = Last.phase \/ job.phase \in Promised!Outcomes
      BY ZenonT(30), <2>1, <2>2 DEF Job
    <2>5. jobs' # <<>> /\ Last' = job
      BY <2>1, <2>2, <2>3, ReplaceJob DEF PodStep, Last
    <2>6. LatestRun = [hash |-> Last.hash, pipe |-> Last.pipe, phase |-> "running"]
      BY ZenonT(30), <1>0, <2>1, <2>2 DEF isRunning
    <2>7. LatestRun' = [hash |-> Last.hash, pipe |-> Last.pipe, phase |-> job.phase]
      BY ZenonT(30), <2>3, <2>5 DEF LatestRun, Last
    <2>8. CASE job.phase = Last.phase
      BY ZenonT(30), <2>6, <2>7, <2>8, <1>0, <2>2
    <2>9. CASE job.phase \in Promised!Outcomes
      <3>1. Promised!End(job.phase)
        BY <2>6, <2>7 DEF Promised!End
      <3> QED
        BY ZenonT(30), <2>9, <3>1 DEF Promised!Next
    <2> QED
      BY ZenonT(30), <2>4, <2>8, <2>9
  <1>6. CASE cleanupJobs
    BY ZenonT(30), <1>3, <1>6 DEF cleanupJobs
  <1>7. CASE CleanupJobsFails
    BY ZenonT(30), <1>3, <1>7 DEF CleanupJobsFails
  <1> QED
    BY ZenonT(30), <1>1, <1>2, <1>4, <1>5, <1>6, <1>7 DEF Next, vars, Controller, Faults, User, Get, ListJobs,
       UpdateCounters, Write, NoPipeline, WaitForJob, MarkFailed, AllDone, cleanupWorks, DeleteWork, RemoveWork, Goto, Return,
       MarkRunning, RemoveManualReconciliationLabel, NoLabelToRemove, Conflict, SuspendFails,
       ApplyFails, Abandon, EditSpec, RequestManualReconciliation, Edit, api

\* The controller executes the pipelines of one version at a time and in
\* order: Workflow implements PipelineRun.
THEOREM Refinement == Spec => PipelinesRunInOrder
  <1>1. Init => Promised!Init
    BY DEF Init, LatestRun, Promised!Init, Promised!NoRun
  <1>2. IInv /\ IInv' /\ [Next]_vars => [Promised!Next]_LatestRun
    BY ZenonT(30), StepRefines
  <1> QED
    BY <1>1, <1>2, Invariance, PTL DEF Spec, PipelinesRunInOrder, Promised!Spec

=============================================================================
