---------------------------- MODULE MCScheduler ----------------------------
(***************************************************************************)
(* Instances of Scheduler for TLC.  Content a selects Destinations that    *)
(* are labelled red, content b selects all; d2 is strict.                  *)
(***************************************************************************)
EXTENDS Scheduler

MCDestinations == {"d1", "d2"}
MCStrict == {"d2"}
MCLabels == {"red"}
MCGroupSpecs == {"a", "b"}
MCSelector == [a |-> "red", b |-> "any"]

\* A resource request with one group; a dependency with two groups on one
\* Destination, of which one may fail; a dependency or a resource request with a
\* cache that lags, on two Destinations, or a dependency on one while the Work
\* and the Destination change.
ResourceSetting ==
    [resource |-> TRUE, lags |-> FALSE, groups |-> {"g1"}, destinations |-> MCDestinations,
     kinds |-> {"crash", "write"}, edits |-> 2, faults |-> 1]

DependencySetting ==
    [resource |-> FALSE, lags |-> FALSE, groups |-> {"g1", "g2"}, destinations |-> {"d1"},
     kinds |-> {"place"}, edits |-> 1, faults |-> 1]

LaggingSetting ==
    [resource |-> FALSE, lags |-> TRUE, groups |-> {"g1"}, destinations |-> MCDestinations,
     kinds |-> {}, edits |-> 0, faults |-> 0]

LaggingResource == [LaggingSetting EXCEPT !.resource = TRUE]

ChangingSetting == [LaggingSetting EXCEPT !.destinations = {"d1"}, !.edits = 2]

MCSettings ==
    {ResourceSetting, DependencySetting, LaggingSetting, LaggingResource, ChangingSetting}

\* A resource request with a cache that lags, with a write that fails, and with
\* two failed calls.
MCDuplicate == {LaggingResource}
MCFailing == {[ResourceSetting EXCEPT !.kinds = {"write"}, !.edits = 0]}
MCSwallowed == {[ResourceSetting EXCEPT !.kinds = {"place"}, !.edits = 0, !.faults = 2]}
=============================================================================
