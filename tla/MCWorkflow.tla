----------------------------- MODULE MCWorkflow -----------------------------
(***************************************************************************)
(* Instances of Workflow for TLC.  v1 and v2 share pipeline p1; the other  *)
(* pipeline of v2 is p3, so an edit leaves a Work to clean up.  v3 has no  *)
(* pipelines.                                                              *)
(***************************************************************************)
EXTENDS Workflow

MCVersions == {"v1", "v2", "v3"}
MCPipelineNames == {"p1", "p2", "p3"}
MCPipelines == [v1 |-> <<"p1", "p2">>, v2 |-> <<"p1", "p3">>, v3 |-> <<>>]

\* Every edit, reverts included.
MCAllEdits == MCVersions \X MCVersions

\* v1 and v2 replace each other.
MCReverts == {<<"v1", "v2">>, <<"v2", "v1">>}

\* A version with pipelines is only replaced by a later one with pipelines.
MCForwardEdits == {<<"v1", "v2">>, <<"v3", "v1">>, <<"v3", "v2">>}
=============================================================================
