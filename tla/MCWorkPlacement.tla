--------------------------- MODULE MCWorkPlacement ---------------------------
(***************************************************************************)
(* Instances of WorkPlacement for TLC: contents that change a file, drop   *)
(* one and add one, and the filepath modes and state stores of the runs.   *)
(***************************************************************************)
EXTENDS WorkPlacement

MCWorkloads == {[f1 |-> "x"], [f1 |-> "y", f2 |-> "x"]}

MCFiles      == {<<"nestedByMetadata", "bucket">>, <<"none", "git">>}
MCBucketNone == {<<"none", "bucket">>}
MCAggregated == {<<"aggregatedYAML", "git">>}
=============================================================================
