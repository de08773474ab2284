---------------------------- MODULE WorkPlacement ----------------------------
(***************************************************************************)
(* The WorkPlacements of one Destination: the controller that writes their *)
(* workloads to the state store and cleans up after them                   *)
(* (workplacement_controller.go), the git and bucket writers, and the      *)
(* scheduler that creates, changes and deletes WorkPlacements.             *)
(*                                                                         *)
(* One step of the controller is one call to the API server or the writer. *)
(* One worker serves the queue.  In mode none, different WorkPlacements    *)
(* are taken to have different file names.                                 *)
(***************************************************************************)
EXTENDS Integers, FiniteSets, TLC, Functions

CONSTANTS
    Placements,
    Settings,     \* possible pairs of filepath mode and kind of state store
    Workloads,    \* contents of a WorkPlacement: functions from file names
    MaxEdits,     \* bound: changes made by the scheduler and the user
    MaxFaults     \* bound: crashes, failed calls and writes

ASSUME WorkPlacementAssumption ==
    /\ Settings \subseteq {"nestedByMetadata", "none", "aggregatedYAML"} \X {"git", "bucket"}
    /\ {MaxEdits, MaxFaults} \subseteq Nat

VARIABLES
    wps,           \* the WorkPlacements
    mode, backend, \* of the Destination and its state store; neither changes
    destination,   \* the Destination exists
    store,         \* what the state store holds
    last,          \* last[w]: last version a write of w made, 0 for none
    queue,         \* the work queue
    pc,            \* the call the controller makes next
    cur,           \* the WorkPlacement being reconciled
    obj,           \* the controller's copy of it
    fresh,         \* obj has the resourceVersion of wps[cur]
    toDelete,      \* workloadsToDelete
    combined,      \* combineWorkloads: the workloads of the active placements
    versionID,     \* version of the write, 0 for ""
    versionCache,  \* VersionCache, 0 for no entry
    edits, faults

local == <<cur, obj, fresh, toDelete, combined, versionID>>
vars  == <<wps, mode, backend, destination, store, last, queue, pc, local, versionCache,
           edits, faults>>

-----------------------------------------------------------------------------
(* Objects *)

FileNames == UNION {DOMAIN f : f \in Workloads}

\* repo and dot are the finalizers repo-cleanup and kratix-dot-files-cleanup;
\* ready is the reason of the Ready condition.
Object ==
    [workloads : Workloads, deleting : BOOLEAN, repo : BOOLEAN, dot : BOOLEAN,
     write : {"unknown", "succeeded", "failed"}, misplaced : BOOLEAN,
     ready : {"none", "Ready", "Misplaced", "WorkloadsFailedWrite",
              "WorkloadsWrittenToTargetDestination"},
     version : Nat]

Active == {w \in DOMAIN wps : ~wps[w].deleting}

\* files[w]: the files in w's directory (at their own paths in mode none);
\* state: the .kratix state files; aggregated: what the one file holds.
EmptyStore ==
    [files |-> [w \in Placements |-> <<>>], state |-> <<>>, aggregated |-> <<>>]

\* A WorkPlacement as the scheduler creates it.
NewObject(f) ==
    [workloads |-> f, deleting |-> FALSE, repo |-> TRUE, dot |-> FALSE, write |-> "unknown",
     misplaced |-> FALSE, ready |-> "none", version |-> 0]

\* Values of the local variables while the controller is idle.
AnyPlacement == CHOOSE w \in Placements : TRUE
AnyWorkloads == CHOOSE f \in Workloads : TRUE

Requeue == queue' = queue \cup {cur}

Done ==
    /\ pc' = "idle"
    /\ cur' = AnyPlacement /\ obj' = NewObject(AnyWorkloads) /\ fresh' = FALSE
    /\ toDelete' = {} /\ combined' = <<>> /\ versionID' = 0

\* Reconcile returns with an error or a requeue.
Retry == Done /\ Requeue

Goto(l) == pc' = l /\ UNCHANGED queue

\* A write of the object with the resourceVersion of obj.
Write(o) ==
    /\ fresh
    /\ wps' = [wps EXCEPT ![cur] = o]
    /\ obj' = o
    /\ queue' = IF o # wps[cur] THEN queue \cup {cur} ELSE queue

\* The object disappears when its last finalizer is removed.
WriteFinalizers(o) ==
    /\ fresh
    /\ wps' = IF o.repo \/ o.dot THEN [wps EXCEPT ![cur] = o]
                                 ELSE Restrict(wps, DOMAIN wps \ {cur})
    /\ Retry

-----------------------------------------------------------------------------
(* Reconcile: reading the object, and the writes of a live one *)

\* Without its Destination a live object only fails, and stays in the queue.
Get(w) ==
    /\ pc = "idle"
    /\ w \in queue
    /\ \/ /\ w \notin DOMAIN wps
          /\ queue' = queue \ {w}
          /\ UNCHANGED <<pc, cur, obj, fresh>>
       \/ /\ w \in DOMAIN wps
          /\ ~wps[w].deleting => destination
          /\ cur' = w
          /\ fresh' = TRUE
          /\ obj' = wps[w]
          /\ pc' = IF wps[w].deleting
                   THEN (IF ~destination THEN "dropAll"
                         ELSE IF wps[w].repo THEN "planDelete" ELSE "deleteDot")
                   ELSE "plan"
          /\ queue' = queue \ {w}
    /\ UNCHANGED <<wps, destination, store, last, toDelete, combined, versionID,
                   versionCache, edits, faults>>

\* Mutant: WorkPlacements that are being deleted are combined as well.
MutListedAll == [w \in DOMAIN wps |-> wps[w].workloads]

Listed == [w \in Active |-> wps[w].workloads]

\* What UpdateFiles needs: the old state file in mode none, the active
\* WorkPlacements for the aggregated file.  With no active one left, an empty
\* file name is written, which fails as the Destination's directory exists.
Plan ==
    /\ pc = "plan"
    /\ \/ /\ mode = "none"
          /\ toDelete' = (IF cur \in DOMAIN store.state THEN store.state[cur] ELSE {})
                            \ DOMAIN obj.workloads
          /\ Goto("write")
          /\ UNCHANGED combined
       \/ /\ mode = "aggregatedYAML"
          /\ combined' = Listed
          /\ Goto(IF Active = {} THEN "writeFailed" ELSE "write")
          /\ UNCHANGED toDelete
       \/ mode = "nestedByMetadata" /\ Goto("write") /\ UNCHANGED <<toDelete, combined>>
    /\ UNCHANGED <<wps, destination, store, last, cur, obj, fresh, versionID, versionCache,
                   edits, faults>>

\* The store after the writer has put the files of puts and removed those of
\* dels.
Update(puts, dels) ==
    [store EXCEPT !.files[cur] =
        LET kept == Restrict(@, DOMAIN @ \ (dels \ puts))
        IN  Restrict(obj.workloads, puts) @@ kept]

\* The state file is written together with the files it lists.
WithState(s) == IF mode = "none" THEN [s EXCEPT !.state = (cur :> DOMAIN obj.workloads) @@ @]
                                 ELSE s

\* The files the writer removes: the whole directory, or the listed ones.
Removed == IF mode = "nestedByMetadata" THEN DOMAIN store.files[cur] ELSE toDelete

\* Mutant: the aggregated file gets the workloads of one WorkPlacement.
MutWrittenSelf == [store EXCEPT !.aggregated = (cur :> obj.workloads)]

Written ==
    IF mode = "aggregatedYAML" THEN [store EXCEPT !.aggregated = combined]
    ELSE WithState(Update(DOMAIN obj.workloads, Removed))

\* A commit of the git writer makes a version, and so does an object put in
\* the bucket; an object removed from it does not.
MakesVersion ==
    store # IF backend = "git" \/ mode = "aggregatedYAML"
            THEN Written ELSE WithState(Update(DOMAIN obj.workloads, {}))

UpdateFiles ==
    /\ pc = "write"
    /\ store' = Written
    /\ last' = IF MakesVersion THEN [last EXCEPT ![cur] = @ + 1] ELSE last
    /\ versionID' = IF MakesVersion THEN last'[cur] ELSE 0
    /\ Goto("written")
    /\ UNCHANGED <<wps, destination, cur, obj, fresh, toDelete, combined, versionCache,
                   edits, faults>>

\* The bucket writer puts one object after the other, the state file first,
\* and removes old ones at the end: it may stop anywhere.
Interrupted ==
    {store} \cup
    IF backend = "git" \/ mode = "aggregatedYAML" THEN {}
    ELSE {WithState(Update(puts, {})) : puts \in SUBSET DOMAIN obj.workloads}
         \cup {WithState(Update(DOMAIN obj.workloads, dels)) : dels \in SUBSET Removed}

Fault ==
    /\ faults < MaxFaults
    /\ faults' = faults + 1

UpdateFilesFails ==
    /\ pc = "write"
    /\ Fault
    /\ store' \in Interrupted
    /\ Goto("writeFailed")
    /\ UNCHANGED <<wps, destination, last, local, versionCache, edits>>

\* Mutant: the message instead of the reason of the condition.
MutFailStatus ==
    /\ pc = "writeFailed"
    /\ IF fresh THEN wps' = [wps EXCEPT ![cur].write = "failed", ![cur].ready = "Failing"]
                ELSE UNCHANGED wps
    /\ Retry
    /\ UNCHANGED <<destination, store, last, versionCache, edits, faults>>

\* Mutant: the error of the writer is not returned.
MutFailForgotten ==
    /\ pc = "writeFailed"
    /\ IF fresh
       THEN wps' = [wps EXCEPT ![cur].write = "failed", ![cur].ready = "WorkloadsFailedWrite"]
       ELSE UNCHANGED wps
    /\ Done
    /\ UNCHANGED <<queue, destination, store, last, versionCache, edits, faults>>

\* An unsuccessful write is put in the status; whether or not that succeeds,
\* the object is tried again.
setWriteFailStatusConditions ==
    /\ pc = "writeFailed"
    /\ IF fresh
       THEN wps' = [wps EXCEPT ![cur].write = "failed", ![cur].ready = "WorkloadsFailedWrite"]
       ELSE UNCHANGED wps
    /\ Retry
    /\ UNCHANGED <<destination, store, last, versionCache, edits, faults>>

\* WriteSucceeded becomes True; versionID is dropped when that update fails.
writeSucceeded ==
    /\ pc = "written"
    /\ \/ /\ obj.write = "succeeded" \/ fresh
          /\ IF obj.write = "succeeded" THEN UNCHANGED <<wps, obj, queue>>
                                        ELSE Write([obj EXCEPT !.write = "succeeded"])
          /\ pc' = "version"
          /\ UNCHANGED <<cur, fresh, toDelete, combined, versionID>>
       \/ /\ obj.write # "succeeded" /\ ~fresh
          /\ Retry
          /\ UNCHANGED wps
    /\ UNCHANGED <<destination, store, last, versionCache, edits, faults>>

\* updateStatus: the cached version is used, and forgotten, only when the
\* write made none.
UsesCache == versionID = 0 /\ versionCache[cur] # 0
Version == IF UsesCache THEN versionCache[cur] ELSE versionID

CacheAfter(v) == [versionCache EXCEPT ![cur] = v]

updateStatus ==
    /\ pc = "version"
    /\ \/ /\ Version \in {0, obj.version}
          /\ Goto("finalizers")
          /\ versionCache' = IF UsesCache THEN CacheAfter(0) ELSE versionCache
          /\ UNCHANGED <<wps, local>>
       \/ /\ Version \notin {0, obj.version}
          /\ Write([obj EXCEPT !.version = Version])
          /\ pc' = "finalizers"
          /\ versionCache' = IF UsesCache THEN CacheAfter(0) ELSE versionCache
          /\ UNCHANGED <<cur, fresh, toDelete, combined, versionID>>
       \/ /\ Version \notin {0, obj.version}
          /\ ~fresh
          /\ Retry
          /\ versionCache' = CacheAfter(Version)
          /\ UNCHANGED wps
    /\ UNCHANGED <<destination, store, last, edits, faults>>

MissingFinalizers == ~obj.repo \/ (mode = "none" /\ ~obj.dot)

\* Mutant: the repo-cleanup finalizer is added whichever is missing.
MutAddRepoOnly ==
    /\ pc = "finalizers"
    /\ MissingFinalizers
    /\ fresh
    /\ wps' = [wps EXCEPT ![cur].repo = TRUE]
    /\ Retry
    /\ UNCHANGED <<destination, store, last, versionCache, edits, faults>>

addFinalizers ==
    /\ pc = "finalizers"
    /\ MissingFinalizers
    /\ fresh
    /\ wps' = [wps EXCEPT ![cur].repo = TRUE, ![cur].dot = (mode = "none")]
    /\ Retry
    /\ UNCHANGED <<destination, store, last, versionCache, edits, faults>>

BecomesReady ==
    /\ obj.write = "succeeded" /\ ~obj.misplaced
    /\ obj.ready # "WorkloadsWrittenToTargetDestination"

setWorkplacementReady ==
    /\ pc = "finalizers"
    /\ ~MissingFinalizers
    /\ \/ /\ BecomesReady /\ fresh
          /\ wps' = [wps EXCEPT ![cur].ready = "WorkloadsWrittenToTargetDestination"]
          /\ Retry
       \/ ~BecomesReady /\ Done /\ UNCHANGED <<wps, queue>>
    /\ UNCHANGED <<destination, store, last, versionCache, edits, faults>>

-----------------------------------------------------------------------------
(* Reconcile: deletion *)

\* deleteWorkPlacement up to its write.  In mode none the state file must be
\* there; the aggregated file is regenerated from what is still active.
PlanDelete ==
    /\ pc = "planDelete"
    /\ \/ /\ mode = "none" /\ cur \in DOMAIN store.state
          /\ toDelete' = store.state[cur]
          /\ Goto("delete")
          /\ UNCHANGED <<cur, obj, fresh, combined, versionID>>
       \/ /\ mode = "none" /\ cur \notin DOMAIN store.state
          /\ Retry
       \/ /\ mode # "none"
          /\ combined' = IF mode = "aggregatedYAML" THEN Listed ELSE <<>>
          /\ Goto("delete")
          /\ UNCHANGED <<cur, obj, fresh, toDelete, versionID>>
    /\ UNCHANGED <<wps, destination, store, last, versionCache, edits, faults>>

\* Mutant: the finalizer stays after the aggregated file is regenerated.
MutRegenerateOnly ==
    /\ pc = "delete"
    /\ store' = [store EXCEPT !.aggregated = combined]
    /\ IF combined = <<>> THEN Goto("dropRepo") /\ UNCHANGED local
                         ELSE Done /\ UNCHANGED queue
    /\ UNCHANGED <<wps, destination, last, versionCache, edits, faults>>

deleteFiles ==
    /\ pc = "delete"
    /\ store' = IF mode = "aggregatedYAML" THEN [store EXCEPT !.aggregated = combined]
                                           ELSE Update({}, Removed)
    /\ Goto("dropRepo")
    /\ UNCHANGED <<wps, destination, last, local, versionCache, edits, faults>>

\* Mutant: an error of the writer is ignored.
MutIgnoreError ==
    /\ pc = "delete"
    /\ Fault
    /\ Goto("dropRepo")
    /\ UNCHANGED <<wps, destination, store, last, local, versionCache, edits>>

deleteFilesFails ==
    /\ pc \in {"delete", "deleteDot"}
    /\ Fault
    /\ store' \in {store} \cup
          IF pc = "deleteDot" \/ backend = "git" \/ mode = "aggregatedYAML" THEN {}
          ELSE {Update({}, dels) : dels \in SUBSET Removed}
    /\ Retry
    /\ UNCHANGED <<wps, destination, last, versionCache, edits>>

deleteStateFile ==
    /\ pc = "deleteDot"
    /\ store' = [store EXCEPT !.state = Restrict(@, DOMAIN @ \ {cur})]
    /\ Goto("dropDot")
    /\ UNCHANGED <<wps, destination, last, local, versionCache, edits, faults>>

\* The finalizer whose work is done is removed; without a Destination both.
removeFinalizer ==
    /\ \/ pc = "dropRepo" /\ WriteFinalizers([obj EXCEPT !.repo = FALSE])
       \/ pc = "dropDot" /\ WriteFinalizers([obj EXCEPT !.dot = FALSE])
       \/ pc = "dropAll" /\ WriteFinalizers([obj EXCEPT !.repo = FALSE, !.dot = FALSE])
    /\ UNCHANGED <<destination, store, last, versionCache, edits, faults>>

\* An update with an old resourceVersion is refused.
Conflict ==
    /\ ~fresh
    /\ \/ pc \in {"dropRepo", "dropDot", "dropAll"}
       \/ pc = "finalizers" /\ (MissingFinalizers \/ BecomesReady)
    /\ Retry
    /\ UNCHANGED <<wps, destination, store, last, versionCache, edits, faults>>

\* The process crashes: VersionCache is lost and every object is queued.
Crash ==
    /\ Fault
    /\ Done
    /\ queue' = Placements
    /\ versionCache' = [w \in Placements |-> 0]
    /\ UNCHANGED <<wps, destination, store, last, edits>>

Step ==
    \/ Plan \/ UpdateFiles \/ setWriteFailStatusConditions \/ writeSucceeded \/ updateStatus
    \/ addFinalizers \/ setWorkplacementReady \/ PlanDelete \/ deleteFiles \/ deleteStateFile
    \/ removeFinalizer \/ Conflict

-----------------------------------------------------------------------------
(* The scheduler and the user *)

Edit(w) ==
    /\ edits < MaxEdits
    /\ edits' = edits + 1
    /\ queue' = queue \cup {w}
    /\ fresh' = (fresh /\ w # cur)
    /\ UNCHANGED <<destination, store, pc, cur, obj, toDelete, combined, versionID,
                   versionCache, faults>>

\* CreateOrUpdate of the scheduler, and its updates of the workloads.
Create(w, f) ==
    /\ Edit(w)
    /\ w \notin DOMAIN wps
    /\ destination
    /\ wps' = (w :> NewObject(f)) @@ wps
    /\ last' = [last EXCEPT ![w] = 0]

\* One that is being deleted is updated as well, as long as it exists.
ChangeWorkloads(w, f) ==
    /\ Edit(w)
    /\ w \in DOMAIN wps
    /\ f # wps[w].workloads
    /\ wps' = [wps EXCEPT ![w].workloads = f]
    /\ UNCHANGED last

\* updateWorkPlacementStatus: Ready changes with ScheduleSucceeded only.
Schedule(w, misplaced) ==
    /\ Edit(w)
    /\ w \in DOMAIN wps
    /\ misplaced # wps[w].misplaced \/ wps[w].ready = "none"
    /\ wps' = [wps EXCEPT ![w].misplaced = misplaced,
                          ![w].ready = IF misplaced THEN "Misplaced" ELSE "Ready"]
    /\ UNCHANGED last

Delete(w) ==
    /\ Edit(w)
    /\ w \in Active
    /\ wps' = [wps EXCEPT ![w].deleting = TRUE]
    /\ UNCHANGED last

\* A Destination with cleanup none has no finalizer and goes away at once; one
\* with cleanup all first has its WorkPlacements deleted.
RemoveDestination ==
    /\ edits < MaxEdits
    /\ edits' = edits + 1
    /\ destination
    /\ destination' = FALSE
    /\ UNCHANGED <<wps, store, last, queue, pc, local, versionCache, faults>>

Init ==
    /\ \E s \in Settings : mode = s[1] /\ backend = s[2]
    /\ wps = <<>> /\ destination = TRUE
    /\ store = EmptyStore
    /\ last = [w \in Placements |-> 0]
    /\ queue = {}
    /\ pc = "idle" /\ cur = AnyPlacement /\ obj = NewObject(AnyWorkloads) /\ fresh = FALSE
    /\ toDelete = {} /\ combined = <<>> /\ versionID = 0
    /\ versionCache = [w \in Placements |-> 0]
    /\ edits = 0 /\ faults = 0

Next ==
    /\ \/ \E w \in Placements : Get(w)
       \/ Step \/ UpdateFilesFails \/ deleteFilesFails \/ Crash
       \/ \E w \in Placements : Delete(w) \/ \E f \in Workloads : Create(w, f)
                                                                  \/ ChangeWorkloads(w, f)
       \/ \E w \in Placements, misplaced \in BOOLEAN : Schedule(w, misplaced)
       \/ RemoveDestination
    /\ UNCHANGED <<mode, backend>>

Spec == Init /\ [][Next]_vars

\* The worker goes on, and the work queue lets no object wait forever.
FairSpec ==
    /\ Spec
    /\ WF_vars(Step /\ UNCHANGED <<mode, backend>>)
    /\ \A w \in Placements : SF_vars(Get(w) /\ UNCHANGED <<mode, backend>>)

-----------------------------------------------------------------------------
(* Properties *)

\* Every variable has its type: objects, the store and the local variables.
TypeOK ==
    /\ <<mode, backend>> \in Settings /\ destination \in BOOLEAN
    /\ DOMAIN wps \subseteq Placements /\ wps \in [DOMAIN wps -> Object]
    /\ store.files \in [Placements -> UNION {[S -> UNION {Range(f) : f \in Workloads}] :
                                             S \in SUBSET FileNames}]
    /\ DOMAIN store.state \subseteq Placements
    /\ \A w \in DOMAIN store.state : store.state[w] \subseteq FileNames
    /\ \A f \in {store.aggregated, combined} :
          DOMAIN f \subseteq Placements /\ f \in [DOMAIN f -> Workloads]
    /\ last \in [Placements -> Nat] /\ versionCache \in [Placements -> Nat]
    /\ queue \subseteq Placements /\ cur \in Placements /\ obj \in Object
    /\ toDelete \subseteq FileNames /\ versionID \in Nat
    /\ pc \in {"idle", "plan", "write", "writeFailed", "written", "version", "finalizers",
               "planDelete", "delete", "dropRepo", "deleteDot", "dropDot", "dropAll"}

\* The repo-cleanup finalizer does its job: while the Destination exists, a
\* WorkPlacement that is gone has no workloads left in the state store,
\* whatever was interrupted or ran in between.  This is about the modes and
\* stores of its runs: in mode none on a bucket an interrupted write forgets a
\* file (see StoreSettles), and the deletion leaves it as well.
GoneLeavesNoFiles ==
    destination => \A w \in Placements \ DOMAIN wps :
        store.files[w] = <<>> /\ w \notin DOMAIN store.aggregated

\* What the store holds of w is what the WorkPlacement says.
Reflected(w) ==
    IF w \in Active
    THEN /\ IF mode = "aggregatedYAML"
            THEN w \in DOMAIN store.aggregated /\ store.aggregated[w] = wps[w].workloads
            ELSE store.files[w] = wps[w].workloads
         /\ wps[w].write = "succeeded"
         /\ wps[w].misplaced \/ wps[w].ready \in {"Ready", "WorkloadsWrittenToTargetDestination"}
    ELSE store.files[w] = <<>> /\ w \notin DOMAIN store.aggregated

\* When the controller has nothing left to do for a WorkPlacement, it is not
\* being deleted, the state store holds what it says, and its conditions say
\* so: no change, conflict, interrupted write or crash leaves it unqueued.
\* Mode none on a bucket is left out for the reason given above.
PlacementsRest ==
    destination => \A w \in DOMAIN wps \ queue :
        (pc # "idle" => cur # w) =>
            /\ ~wps[w].deleting /\ Reflected(w)
            /\ wps[w].misplaced \/ wps[w].ready = "WorkloadsWrittenToTargetDestination"

\* Once nothing changes any more, the state store holds exactly the workloads
\* of the WorkPlacements that are not being deleted, and their conditions say
\* so.
StoreSettles == <>[](destination => \A w \in Placements : Reflected(w))

\* deleteWorkPlacement ends with the removal of the last finalizer: a deleted
\* WorkPlacement goes away.
DeletionCompletes ==
    \A w \in Placements : (w \in DOMAIN wps /\ wps[w].deleting) ~> w \notin DOMAIN wps

\* The kratix-dot-files-cleanup finalizer: a WorkPlacement that is gone has
\* left no .kratix state file.
NoStateFileLeft == destination => DOMAIN store.state \subseteq DOMAIN wps

\* workplacement_types.go: the version of the last applied write is recorded;
\* workplacement_controller_test.go: "applies the Version ID on the next
\* reconcile" when updating the status fails: the status ends up with the
\* version of the last write.
VersionRecorded ==
    <>[](destination => \A w \in Active : wps[w].version = last[w])

\* workplacement_controller_test.go: "won't update the versionid when no new
\* version is generated": the recorded version never goes back.
VersionNeverRegresses ==
    [][\A w \in DOMAIN wps \cap DOMAIN wps' : wps'[w].version >= wps[w].version]_vars

\* workplacement_types.go: "For Bucket StateStores, this is always empty": a
\* write to a bucket records no version.
BucketHasNoVersion == backend = "bucket" => \A w \in DOMAIN wps : wps[w].version = 0

=============================================================================
