------------------------------ MODULE Scheduler ------------------------------
(***************************************************************************)
(* One Work: the Work controller (work_controller.go), the scheduler that  *)
(* turns its workload groups into WorkPlacements (scheduler.go), and what  *)
(* happens around them: edits of the Work, relabelled and deleted          *)
(* Destinations, and the outcome of each WorkPlacement's write.            *)
(*                                                                         *)
(* One step of the controller is one call to the API server.  WorkPlace-   *)
(* ments are read from the informer cache, which may lag behind, except    *)
(* for a deletion, which lists them on the API server.                     *)
(***************************************************************************)
EXTENDS Integers, FiniteSets

CONSTANTS
    Groups,             \* workload group IDs
    Destinations,
    Labels,             \* label sets of Destinations, other than no labels
    Strict,             \* the Destinations with strictMatchLabels
    GroupSpecs,         \* contents of a group: its workloads and selectors
    Selector,           \* the resolved selector of a content, "any" if empty
    Settings            \* what a behaviour starts with, see Setting

\* resource: the Work is of a resource request, not a dependency; lags: so does
\* the cache; groups and destinations: those that are used; kinds: the faults
\* that happen; edits and faults: bounds on edits of the Work and Destinations,
\* and on crashes, failed calls and failed writes.
Setting ==
    [resource : BOOLEAN, lags : BOOLEAN, groups : SUBSET Groups,
     destinations : SUBSET Destinations, kinds : SUBSET {"crash", "place", "write"},
     edits : Nat, faults : Nat]

ASSUME SchedulerAssumption ==
    /\ Selector \in [GroupSpecs -> Labels \cup {"any"}]
    /\ Strict \subseteq Destinations
    /\ "none" \notin GroupSpecs
    /\ {"plain", "deleting", "gone", "any"} \cap Labels = {}
    /\ "none" \notin Groups \cup Destinations
    /\ Settings \subseteq Setting

VARIABLES
    setting,      \* the Setting; it never changes
    work,         \* the Work on the API server
    dest,         \* dest[d]: the labels of Destination d, or how far its deletion is
    wps,          \* the WorkPlacements, by group and Destination
    cache,        \* wps as the informer last saw them
    behind,       \* WorkPlacements written since then
    moved,        \* WorkPlacements written since they were listed
    pc,           \* the API call the controller makes next
    obj,          \* the controller's copy of the Work
    fresh,        \* obj has the resourceVersion of work
    existing,     \* Destinations of existingWorkplacements of the current group
    todo,         \* groups not reconciled yet
    group,        \* the group being reconciled
    targets,      \* targetDestinationMap: Destinations left, TRUE if misplaced
    target,       \* the Destination whose status is updated next
    errored,      \* an update of this group's WorkPlacements failed
    unscheduled, misplaced,   \* groups found so
    queued,       \* the Work is in the work queue
    edits, faults

placements == <<wps, cache, behind, moved>>
api    == <<work, dest, placements>>
locals == <<existing, todo, group, targets, target, errored, unscheduled, misplaced>>
vars   == <<setting, api, pc, obj, fresh, locals, queued, edits, faults>>

-----------------------------------------------------------------------------
(* Objects *)

IsResourceRequest == setting.resource
CacheLags == setting.lags

Keys == Groups \X Destinations

Reasons == {"none", "FailedToScheduleWorkloads", "UnscheduledWorkloads", "Misplaced",
            "AllWorkplacementsScheduled", "WorkplacementsFailing"}

\* How many groups a set of them has.
Counts == {Cardinality(gs) : gs \in SUBSET Groups}
Differences == {m - n : m \in Counts, n \in Counts}

\* The Ready and ScheduleSucceeded conditions always change together; of is
\* what their message names.
Status == [reason : Reasons, of : SUBSET (Groups \cup Keys),
           workPlacements : Counts, created : Differences]

Work == [phase : {"live", "deleting", "gone"}, finalizer : BOOLEAN,
         groups : [Groups -> GroupSpecs \cup {"none"}], status : Status]

Placement == [workloads : GroupSpecs, mislabelled : BOOLEAN, deleting : BOOLEAN,
              sched : {"unknown", "scheduled", "misplaced"},
              write : {"unknown", "succeeded", "failed"}]

GroupsOf(w) == {g \in Groups : w.groups[g] # "none"}

\* f with the value v at k, and f without k.
Put(f, k, v) == [x \in DOMAIN f \cup {k} |-> IF x = k THEN v ELSE f[x]]
Drop(f, k) == [x \in DOMAIN f \ {k} |-> f[x]]

\* getDestinationsForWorkloadGroup: without a selector every Destination
\* matches, except a strict one that has labels.  One that is being deleted
\* never does.
Matching(s) ==
    {d \in Destinations :
        /\ dest[d] \notin {"deleting", "gone"}
        /\ \/ Selector[s] = "any" /\ ~ (d \in Strict /\ dest[d] # "plain")
           \/ dest[d] = Selector[s]}

\* The choices of getTargetDestinationNames: one match for a resource
\* request, every match for a dependency.
TargetNames(s) ==
    IF IsResourceRequest /\ Matching(s) # {} THEN {{d} : d \in Matching(s)}
                                             ELSE {Matching(s)}

\* getExistingWorkPlacementsForWorkloadGroup, from the cache.
Existing(g) == {d \in Destinations : <<g, d>> \in DOMAIN cache}

-----------------------------------------------------------------------------
(* Writes and the events they cause *)

\* WorkPlacements are watched: the Work is queued when the informer sees a
\* change.
Changed(w) ==
    {k \in DOMAIN w \cup DOMAIN wps :
        ~ (k \in DOMAIN w /\ k \in DOMAIN wps /\ w[k] = wps[k])}

StorePlacements(w) ==
    /\ wps' = w
    /\ cache' = IF CacheLags THEN cache ELSE w
    /\ behind' = IF CacheLags THEN behind \cup Changed(w) ELSE {}
    /\ moved' = IF pc \in {"place", "placeStatus"} THEN moved \cup Changed(w) ELSE {}

\* Owns(&WorkPlacement{}): a write the informer has seen queues the Work.
Seen == ~CacheLags /\ wps' # wps

Sync ==
    /\ behind # {}
    /\ cache' = wps
    /\ behind' = {}
    /\ queued' = TRUE
    /\ UNCHANGED <<work, dest, wps, moved, pc, obj, fresh, locals, edits, faults>>

Fault(kind) ==
    /\ kind \in setting.kinds
    /\ faults < setting.faults
    /\ faults' = faults + 1

\* An update of the Work with the resourceVersion of obj.
WriteWork(w) ==
    /\ fresh
    /\ work' = w
    /\ obj' = w
    /\ queued' = (queued \/ w # work)

\* Reconcile returns; again: with a requeue or an error.
Return(again) ==
    /\ pc' = "idle"
    /\ queued' = (queued \/ again)
    /\ existing' = {} /\ targets' = <<>>
    /\ group' = "none" /\ target' = "none"
    /\ todo' = {} /\ unscheduled' = {} /\ misplaced' = {}
    /\ errored' = FALSE

-----------------------------------------------------------------------------
(* The Work controller: Reconcile *)

Get ==
    /\ pc = "idle"
    /\ queued
    /\ queued' = FALSE
    /\ obj' = work
    /\ fresh' = TRUE
    /\ pc' = IF work.phase = "gone" THEN "idle"
             ELSE IF work.phase = "deleting" THEN "delete"
             ELSE IF ~work.finalizer THEN "finalizer"
             ELSE "schedule"
    /\ todo' = IF pc' = "schedule" THEN GroupsOf(work) ELSE {}
    /\ moved' = {}
    /\ UNCHANGED <<work, dest, wps, cache, behind, existing, group, targets, target, errored,
                   unscheduled, misplaced, edits, faults>>

addFinalizers ==
    /\ pc = "finalizer"
    /\ WriteWork([obj EXCEPT !.finalizer = TRUE])
    /\ pc' = "idle"
    /\ UNCHANGED <<dest, placements, fresh, locals, edits, faults>>

\* The WorkPlacements after those with a key in ks are deleted: all of them
\* have a finalizer.
Deleted(ks) ==
    [k \in DOMAIN wps |-> IF k \in ks THEN [wps[k] EXCEPT !.deleting = TRUE] ELSE wps[k]]

\* deleteWork while WorkPlacements remain: all of them are deleted.  They are
\* listed as unstructured objects, which are not cached.
deletePlacements ==
    /\ pc = "delete"
    /\ DOMAIN wps # {}
    /\ StorePlacements(Deleted(DOMAIN wps))
    /\ Return(TRUE)
    /\ UNCHANGED <<work, dest, obj, fresh, edits, faults>>

\* Mutant: it is enough that every WorkPlacement is being deleted.
MutRemoveEarly ==
    /\ pc = "delete"
    /\ \A k \in DOMAIN wps : wps[k].deleting
    /\ WriteWork([obj EXCEPT !.finalizer = FALSE, !.phase = "gone"])
    /\ pc' = "idle"
    /\ UNCHANGED <<dest, placements, fresh, locals, edits, faults>>

\* deleteWork once none remains.
removeFinalizer ==
    /\ pc = "delete"
    /\ DOMAIN wps = {}
    /\ WriteWork([obj EXCEPT !.finalizer = FALSE, !.phase = "gone"])
    /\ pc' = "idle"
    /\ UNCHANGED <<dest, placements, fresh, locals, edits, faults>>

-----------------------------------------------------------------------------
(* The scheduler: ReconcileWork *)

\* reconcileWorkloadGroup up to its first write.  A resource request that has
\* WorkPlacements keeps them where they are.
reconcileWorkloadGroup(g) ==
    /\ pc = "schedule"
    /\ g \in todo
    /\ todo' = todo \ {g}
    /\ group' = g
    /\ existing' = Existing(g)
    /\ moved' = behind
    /\ \E names \in IF IsResourceRequest /\ Existing(g) # {}
                    THEN {Matching(obj.groups[g]) \cap Existing(g)}
                    ELSE TargetNames(obj.groups[g]) :
          /\ targets' = [d \in names \cup Existing(g) |-> d \notin names]
          /\ unscheduled' = IF names \cup Existing(g) = {} THEN unscheduled \cup {g}
                                                           ELSE unscheduled
          /\ pc' = IF names \cup Existing(g) = {} THEN "schedule" ELSE "place"
    /\ UNCHANGED <<work, dest, wps, cache, behind, obj, fresh, target, errored, misplaced,
                   queued, edits, faults>>

Key(d) == <<group, d>>

\* The WorkPlacement existed and the Work is of a resource request.
Updates(d) == IsResourceRequest /\ d \in existing

\* Destination d is done with; a failed update of an existing WorkPlacement
\* is counted, any other failure ends the group at once.
FinishTarget(d, failed) ==
    /\ targets' = Drop(targets, d)
    /\ target' = "none"
    /\ errored' = (errored \/ failed)
    /\ misplaced' = IF targets[d] /\ ~failed THEN misplaced \cup {group} ELSE misplaced
    /\ pc' = IF failed /\ ~Updates(d) THEN "failed"
             ELSE IF DOMAIN targets \ {d} # {} THEN "place"
             ELSE IF errored' THEN "failed" ELSE "schedule"
    /\ UNCHANGED <<existing, todo, group, unscheduled>>

Placed(d) ==
    /\ target' = d
    /\ pc' = "placeStatus"
    /\ UNCHANGED <<existing, todo, group, targets, errored, unscheduled, misplaced>>

\* updateWorkPlacement: the label is added, never removed.
updateWorkPlacement(d) ==
    /\ pc = "place"
    /\ d \in DOMAIN targets
    /\ Updates(d)
    /\ IF Key(d) \notin moved
       THEN /\ StorePlacements([wps EXCEPT ![Key(d)].workloads = obj.groups[group],
                                           ![Key(d)].mislabelled = @ \/ targets[d]])
            /\ Placed(d)
            /\ queued' = (queued \/ Seen)
       ELSE FinishTarget(d, TRUE) /\ UNCHANGED <<placements, queued>>
    /\ UNCHANGED <<work, dest, obj, fresh, edits, faults>>

NewPlacement ==
    [workloads |-> obj.groups[group], mislabelled |-> FALSE, deleting |-> FALSE,
     sched |-> "unknown", write |-> "unknown"]

\* The body of CreateOrUpdate: the labels are written anew.
Desired(d) ==
    [IF Key(d) \in DOMAIN cache THEN cache[Key(d)] ELSE NewPlacement
        EXCEPT !.workloads = obj.groups[group], !.mislabelled = targets[d]]

\* applyWorkplacementsForTargetDestinations, one Destination: nothing is
\* written when the cached copy is as desired; a write fails when that copy
\* is behind.
createOrUpdate(d) ==
    /\ pc = "place"
    /\ d \in DOMAIN targets
    /\ ~Updates(d)
    /\ IF Key(d) \in DOMAIN cache /\ cache[Key(d)] = Desired(d)
       THEN Placed(d) /\ UNCHANGED <<placements, queued>>
       ELSE IF Key(d) \notin behind
       THEN /\ StorePlacements(Put(wps, Key(d), Desired(d)))
            /\ Placed(d)
            /\ queued' = (queued \/ Seen)
       ELSE FinishTarget(d, TRUE) /\ UNCHANGED <<placements, queued>>
    /\ UNCHANGED <<work, dest, obj, fresh, edits, faults>>

\* The WorkPlacement is read again, and its status written if it changes.
updateWorkPlacementStatus ==
    LET k == Key(target)
        sched == IF targets[target] THEN "misplaced" ELSE "scheduled"
    IN  /\ pc = "placeStatus"
        /\ \/ /\ k \in DOMAIN cache /\ cache[k].sched = sched
              /\ FinishTarget(target, FALSE)
              /\ UNCHANGED <<placements, queued>>
           \/ /\ k \in DOMAIN cache /\ cache[k].sched # sched
              /\ k \notin behind
              /\ FinishTarget(target, FALSE)
              /\ StorePlacements([wps EXCEPT ![k].sched = sched])
              /\ queued' = (queued \/ Seen)
           \/ /\ k \in DOMAIN cache => cache[k].sched # sched /\ k \in behind
              /\ FinishTarget(target, TRUE)
              /\ UNCHANGED <<placements, queued>>
        /\ UNCHANGED <<work, dest, obj, fresh, edits, faults>>

\* A call on a WorkPlacement fails for another reason than a conflict.
PlaceFails ==
    /\ Fault("place")
    /\ \/ pc = "place" /\ \E d \in DOMAIN targets : FinishTarget(d, TRUE)
       \/ pc = "placeStatus" /\ FinishTarget(target, TRUE)
    /\ UNCHANGED <<api, obj, fresh, queued, edits>>

\* A group failed: the error is put in the status and not returned.
FailedToSchedule ==
    /\ pc = "failed"
    /\ WriteWork([obj EXCEPT !.status.reason = "FailedToScheduleWorkloads",
                             !.status.of = {group}])
    /\ pc' = "report"
    /\ unscheduled' = {}
    /\ UNCHANGED <<dest, placements, fresh, existing, todo, group, targets, target, errored,
                   misplaced, edits, faults>>

\* updateWorkStatus of the scheduler.
ScheduleStatus ==
    [reason |-> IF unscheduled # {} THEN "UnscheduledWorkloads"
                ELSE IF misplaced # {} THEN "Misplaced"
                ELSE "AllWorkplacementsScheduled",
     of |-> IF unscheduled # {} THEN unscheduled ELSE misplaced,
     workPlacements |-> Cardinality(GroupsOf(obj)),
     created |-> Cardinality(GroupsOf(obj)) - Cardinality(unscheduled)]

updateWorkStatus ==
    /\ pc = "schedule"
    /\ todo = {}
    /\ IF ScheduleStatus = obj.status
       THEN UNCHANGED <<work, obj, queued>>
       ELSE WriteWork([obj EXCEPT !.status = ScheduleStatus])
    /\ pc' = "dangling"
    /\ UNCHANGED <<dest, placements, fresh, locals, edits, faults>>

\* Mutant: nothing dangles.
MutNoDangling == {}

\* cleanupDanglingWorkplacements, and the requeue of Reconcile when a
\* resource request has no Destination yet.
Dangling == {k \in DOMAIN cache : obj.groups[k[1]] = "none"}

cleanupDanglingWorkplacements ==
    /\ pc = "dangling"
    /\ Dangling \subseteq DOMAIN wps
    /\ StorePlacements(Deleted(Dangling))
    /\ IF IsResourceRequest /\ unscheduled # {}
       THEN Return(TRUE)
       ELSE /\ pc' = "report"
            /\ queued' = (queued \/ Seen)
            /\ UNCHANGED locals
    /\ UNCHANGED <<work, dest, obj, fresh, edits, faults>>

\* Mutant: the Destinations instead of the WorkPlacements are reported.
MutFailedNames == {k[2] : k \in {x \in DOMAIN cache : cache[x].write = "failed"}}

\* Mutant: a write that is not reported yet counts as failed.
MutFailedUnknown == {k \in DOMAIN cache : cache[k].write # "succeeded"}

\* updateWorkStatus of the controller: the failed writes.
FailedWrites == {k \in DOMAIN cache : cache[k].write = "failed"}

FailingStatus ==
    [obj.status EXCEPT !.reason = "WorkplacementsFailing", !.of = FailedWrites]

reportFailing ==
    /\ pc = "report"
    /\ FailedWrites # {} /\ FailingStatus # obj.status
    /\ fresh
    /\ work' = [obj EXCEPT !.status = FailingStatus]
    /\ obj' = work'
    /\ Return(TRUE)
    /\ UNCHANGED <<dest, placements, fresh, edits, faults>>

nothingToReport ==
    /\ pc = "report"
    /\ FailedWrites = {} \/ FailingStatus = obj.status
    /\ Return(FALSE)
    /\ UNCHANGED <<api, obj, fresh, edits, faults>>

\* A write with an old resourceVersion is refused, and so is the deletion of
\* a WorkPlacement that is gone: Reconcile returns and tries again.
Conflict ==
    /\ \/ ~fresh /\ \/ pc \in {"finalizer", "failed"}
                    \/ pc = "delete" /\ DOMAIN wps = {}
                    \/ pc = "schedule" /\ todo = {} /\ ScheduleStatus # obj.status
                    \/ pc = "report" /\ FailedWrites # {} /\ FailingStatus # obj.status
       \/ pc = "dangling" /\ ~ (Dangling \subseteq DOMAIN wps)
    /\ Return(TRUE)
    /\ UNCHANGED <<api, obj, fresh, edits, faults>>

\* The process crashes, or another call fails.  Every object is queued when
\* it starts again.
Abandon ==
    /\ pc # "idle"
    /\ Fault("crash")
    /\ Return(TRUE)
    /\ UNCHANGED <<api, obj, fresh, edits>>

Controller ==
    \/ Get \/ addFinalizers \/ deletePlacements \/ removeFinalizer
    \/ \E g \in Groups : reconcileWorkloadGroup(g)
    \/ \E d \in Destinations : updateWorkPlacement(d) \/ createOrUpdate(d)
    \/ updateWorkPlacementStatus \/ FailedToSchedule \/ updateWorkStatus
    \/ cleanupDanglingWorkplacements \/ reportFailing \/ nothingToReport \/ Conflict

-----------------------------------------------------------------------------
(* Around the controller *)

Edit ==
    /\ edits < setting.edits
    /\ edits' = edits + 1
    /\ UNCHANGED <<pc, obj, locals, faults>>

\* The Work's writers (work-creator and the Promise controller) set or drop
\* a group.
EditGroup(g, s) ==
    /\ Edit
    /\ work.phase = "live"
    /\ s # work.groups[g]
    /\ work' = [work EXCEPT !.groups[g] = s]
    /\ fresh' = FALSE
    /\ queued' = TRUE
    /\ UNCHANGED <<dest, placements>>

DeleteWork ==
    /\ Edit
    /\ work.phase = "live"
    /\ work' = [work EXCEPT !.phase = IF work.finalizer THEN "deleting" ELSE "gone"]
    /\ fresh' = FALSE
    /\ queued' = TRUE
    /\ UNCHANGED <<dest, placements>>

\* Mutant: only a new Destination queues the Works.
MutLabelUnseen(d, l) ==
    /\ Edit
    /\ dest[d] \notin {l, "deleting"}
    /\ dest' = [dest EXCEPT ![d] = l]
    /\ queued' = (queued \/ dest[d] = "gone")
    /\ UNCHANGED <<work, placements, fresh>>

\* A Destination is created or relabelled: every Work is queued.
LabelDestination(d, l) ==
    /\ Edit
    /\ dest[d] \notin {l, "deleting"}
    /\ dest' = [dest EXCEPT ![d] = l]
    /\ queued' = TRUE
    /\ UNCHANGED <<work, placements, fresh>>

\* A Destination is deleted.  With cleanup "all" it has a finalizer, and no
\* Work is queued for an object that is being deleted; with "none" it goes at
\* once, that event queues every Work, and its WorkPlacements stay.
DeleteDestination(d) ==
    /\ Edit
    /\ dest[d] \notin {"deleting", "gone"}
    /\ \/ dest' = [dest EXCEPT ![d] = "deleting"] /\ UNCHANGED queued
       \/ dest' = [dest EXCEPT ![d] = "gone"] /\ queued' = TRUE
    /\ UNCHANGED <<work, placements, fresh>>

\* deleteDestination: the WorkPlacements at d are deleted, and when none is
\* left the finalizer is removed.
deleteDestination(d) ==
    /\ dest[d] = "deleting"
    /\ LET remaining == {k \in DOMAIN wps : k[2] = d}
       IN  \/ /\ remaining = {}
              /\ dest' = [dest EXCEPT ![d] = "gone"]
              /\ UNCHANGED <<placements, queued>>
           \/ /\ \E k \in remaining : ~wps[k].deleting
              /\ StorePlacements(Deleted(remaining))
              /\ queued' = (queued \/ Seen)
              /\ UNCHANGED dest
    /\ UNCHANGED <<work, pc, obj, fresh, locals, edits, faults>>

\* The WorkPlacement controller reports on its write, and lets a deleted
\* WorkPlacement go.
ReportWrite(k) ==
    /\ ~wps[k].deleting
    /\ \/ /\ wps[k].write # "succeeded"
          /\ StorePlacements([wps EXCEPT ![k].write = "succeeded"])
          /\ UNCHANGED faults
       \/ /\ wps[k].write # "failed"
          /\ Fault("write")
          /\ StorePlacements([wps EXCEPT ![k].write = "failed"])
    /\ queued' = (queued \/ Seen)
    /\ UNCHANGED <<work, dest, pc, obj, fresh, locals, edits>>

RemovePlacement(k) ==
    /\ wps[k].deleting
    /\ StorePlacements(Drop(wps, k))
    /\ queued' = (queued \/ Seen)
    /\ UNCHANGED <<work, dest, pc, obj, fresh, locals, edits, faults>>

\* Kubernetes garbage collection: the Work owns its WorkPlacements.
CollectGarbage ==
    /\ work.phase = "gone"
    /\ \E k \in DOMAIN wps : ~wps[k].deleting
    /\ StorePlacements(Deleted(Keys))
    /\ queued' = (queued \/ Seen)
    /\ UNCHANGED <<work, dest, pc, obj, fresh, locals, edits, faults>>

Environment ==
    \/ \E g \in setting.groups, s \in GroupSpecs \cup {"none"} : EditGroup(g, s)
    \/ DeleteWork \/ CollectGarbage
    \/ \E d \in Destinations : deleteDestination(d)
    \/ \E d \in setting.destinations : DeleteDestination(d)
                                       \/ \E l \in Labels \cup {"plain"} : LabelDestination(d, l)
    \/ \E k \in DOMAIN wps : ReportWrite(k) \/ RemovePlacement(k)

-----------------------------------------------------------------------------

Init ==
    /\ setting \in Settings
    /\ work \in [phase : {"live"}, finalizer : {FALSE},
                 groups : [Groups -> GroupSpecs \cup {"none"}],
                 status : {[reason |-> "none", of |-> {}, workPlacements |-> 0, created |-> 0]}]
    /\ GroupsOf(work) \subseteq setting.groups
    /\ dest \in [Destinations -> Labels \cup {"plain", "gone"}]
    /\ {d \in Destinations : dest[d] # "gone"} \subseteq setting.destinations
    /\ wps = <<>> /\ cache = <<>> /\ behind = {} /\ moved = {}
    /\ pc = "idle" /\ obj = work /\ fresh = TRUE
    /\ existing = {} /\ todo = {} /\ group = "none" /\ targets = <<>> /\ target = "none"
    /\ errored = FALSE /\ unscheduled = {} /\ misplaced = {}
    /\ queued = TRUE
    /\ edits = 0 /\ faults = 0

Next ==
    /\ Controller \/ Environment \/ Sync \/ PlaceFails \/ Abandon
    /\ UNCHANGED setting

Spec == Init /\ [][Next]_vars

\* The work queue is served, the informer catches up, and the WorkPlacement
\* and Destination controllers and the garbage collector finish deletions.
FairSpec ==
    /\ Spec
    /\ WF_vars(Controller /\ UNCHANGED setting)
    /\ WF_vars(Sync /\ UNCHANGED setting) /\ WF_vars(CollectGarbage /\ UNCHANGED setting)
    /\ \A d \in Destinations : WF_vars(deleteDestination(d) /\ UNCHANGED setting)
    /\ \A k \in Keys : WF_vars(k \in DOMAIN wps /\ RemovePlacement(k) /\ UNCHANGED setting)

-----------------------------------------------------------------------------
(* Properties *)

\* Every variable has its type: objects, the cached copies and the local
\* variables of ReconcileWork.
TypeOK ==
    /\ setting \in Settings
    /\ work \in Work /\ obj \in Work
    /\ dest \in [Destinations -> Labels \cup {"plain", "deleting", "gone"}]
    /\ \A f \in {wps, cache} : DOMAIN f \subseteq Keys /\ f \in [DOMAIN f -> Placement]
    /\ behind \in SUBSET Keys /\ moved \in SUBSET Keys /\ existing \in SUBSET Destinations
    /\ pc \in {"idle", "finalizer", "delete", "schedule", "place", "placeStatus", "failed",
               "dangling", "report"}
    /\ fresh \in BOOLEAN /\ errored \in BOOLEAN /\ queued \in BOOLEAN
    /\ todo \in SUBSET Groups /\ unscheduled \in SUBSET Groups /\ misplaced \in SUBSET Groups
    /\ group \in Groups \cup {"none"} /\ target \in Destinations \cup {"none"}
    /\ DOMAIN targets \subseteq Destinations /\ targets \in [DOMAIN targets -> BOOLEAN]
    /\ edits \in 0..setting.edits /\ faults \in 0..setting.faults

\* The comment of reconcileWorkloadGroup: "only one Workplacement will be
\* created per WorkloadGroup" of a resource request, whichever Destination
\* the random choice of getTargetDestinationNames picked each time.
OnePlacementPerGroup ==
    IsResourceRequest =>
        \A g \in Groups, c, d \in Destinations :
            <<g, c>> \in DOMAIN wps /\ <<g, d>> \in DOMAIN wps => c = d

\* When ReconcileWork has succeeded, every WorkPlacement that is not being
\* deleted belongs to a group of the Work it read and carries that group's
\* workloads: updates reached them all and none dangles. With a cache that
\* lags, another reconciliation follows.
PlacementsMatchWork ==
    ~CacheLags /\ pc = "report" /\ obj.status.reason # "FailedToScheduleWorkloads" =>
        \A k \in DOMAIN wps :
            wps[k].deleting \/ wps[k].workloads = obj.groups[k[1]]

\* The Work's finalizer does its job: a Work that is gone has left no
\* WorkPlacement behind, whenever it was deleted and however far the cache lags.
GoneWorkHasNoPlacements == work.phase = "gone" => DOMAIN wps = {}

\* Where the WorkPlacements of a group are, and where they should be.
Placements(g) == {d \in Destinations : <<g, d>> \in DOMAIN wps}
Matches(g) == Matching(work.groups[g])

Unplaced == {g \in GroupsOf(work) : Placements(g) = {}}
Misplaced == {g \in GroupsOf(work) : ~ (Placements(g) \subseteq Matches(g))}

\* What scheduling aims at for a WorkPlacement, and for a group: some
\* WorkPlacement of a resource request, one at each match of a dependency.
PlacementDone(g, d) ==
    /\ wps[<<g, d>>].workloads = work.groups[g]
    /\ wps[<<g, d>>].sched = IF d \in Matches(g) THEN "scheduled" ELSE "misplaced"

GroupDone(g) ==
    /\ \A d \in Placements(g) : PlacementDone(g, d)
    /\ IF IsResourceRequest THEN Matches(g) # {} => Placements(g) # {}
                            ELSE Matches(g) \subseteq Placements(g)

ReasonRight ==
    work.status.reason = IF Unplaced # {} THEN "UnscheduledWorkloads"
                         ELSE IF Misplaced # {} THEN "Misplaced" ELSE "AllWorkplacementsScheduled"

NoneDangles == \A k \in DOMAIN wps : k[1] \in GroupsOf(work)

\* What it aims at for the Work and the Destinations as they are.
Settled ==
    /\ work.phase # "deleting"
    /\ work.phase = "gone" => DOMAIN wps = {}
    /\ work.phase = "live" =>
          /\ NoneDangles
          /\ \A g \in GroupsOf(work) : GroupDone(g)
          /\ (\A k \in DOMAIN wps : wps[k].write # "failed") => ReasonRight

\* Nothing is on its way: the Work is not queued, the informer has seen every
\* write, and neither the WorkPlacement and Destination controllers nor the
\* garbage collector have a deletion to finish.
Calm ==
    /\ ~queued /\ behind = {}
    /\ \A d \in Destinations : dest[d] # "deleting"
    /\ \A k \in DOMAIN wps : ~wps[k].deleting
    /\ work.phase = "gone" => DOMAIN wps = {}

\* When the Work controller has nothing left to do, the Work is where it
\* should be and its status says so: no edit, relabelled or deleted
\* Destination, stale cache, conflict or crash between two calls is forgotten,
\* except the failed call that ReconcileWork puts in the status.
WorkRests ==
    pc = "idle" /\ Calm /\ work.status.reason # "FailedToScheduleWorkloads" => Settled

\* Once the Work and the Destinations no longer change and no deletion of a
\* Destination is under way (see DestinationsGo), every group is where it
\* should be, what is misplaced is marked so, and the Work's status says it.
SchedulingSettles == <>[](\A d \in Destinations : dest[d] # "deleting") => <>[]Settled

\* The deletion of a Destination comes to an end.
DestinationsGo == \A d \in Destinations : dest[d] = "deleting" ~> dest[d] # "deleting"

\* scheduler_test.go: WorkPlacements whose Destination matches "should not be
\* marked as misplaced": the label agrees with the condition in the end.
LabelSettles ==
    <>[](\A k \in DOMAIN wps :
            wps[k].deleting \/ (wps[k].mislabelled <=> wps[k].sched = "misplaced"))

\* work_controller.go logs "error scheduling Work, will retry...": a Work
\* whose scheduling failed is scheduled again until it succeeds, once calls
\* no longer fail.
SchedulingRetried == []<>(work.status.reason # "FailedToScheduleWorkloads")

\* work_controller_test.go: while a WorkPlacement keeps failing to write, the
\* Work's condition is WorkplacementsFailing.
FailingSettles ==
    <>[](\E k \in DOMAIN wps : wps[k].write = "failed" /\ ~wps[k].deleting)
        => <>[](work.status.reason = "WorkplacementsFailing")

=============================================================================
