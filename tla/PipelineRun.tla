----------------------------- MODULE PipelineRun -----------------------------
(***************************************************************************)
(* What a workflow promises its users, with nothing of how the controller  *)
(* does it: the pipelines of one version of the parent object are executed *)
(* one at a time, from the first to the last, each started only once the   *)
(* one before it has completed.  A workflow may be started afresh, at any  *)
(* version, whenever no pipeline is executing.  Module Workflow, the model *)
(* of lib/workflow, is shown to implement this specification.              *)
(***************************************************************************)
EXTENDS Naturals

CONSTANTS Versions,   \* the specs (hashes) the parent object can have
          Count       \* Count[v] is the number of pipelines of version v

VARIABLE run          \* the pipeline started last, or NoRun

NoRun == [hash |-> "none", pipe |-> 0, phase |-> "none"]

Outcomes == {"complete", "failed", "suspended"}

Init == run = NoRun

\* The first pipeline of version v starts; nothing is executing.
StartFirst(v) ==
    /\ run.phase # "running"
    /\ Count[v] > 0
    /\ run' = [hash |-> v, pipe |-> 1, phase |-> "running"]

\* The next pipeline of the same version starts; its predecessor completed.
StartNext ==
    /\ run.phase = "complete"
    /\ run.pipe < Count[run.hash]
    /\ run' = [hash |-> run.hash, pipe |-> run.pipe + 1, phase |-> "running"]

\* The executing pipeline ends.
End(outcome) ==
    /\ run.phase = "running"
    /\ run' = [run EXCEPT !.phase = outcome]

Next ==
    \/ \E v \in Versions : StartFirst(v)
    \/ StartNext
    \/ \E outcome \in Outcomes : End(outcome)

Spec == Init /\ [][Next]_run
=============================================================================
