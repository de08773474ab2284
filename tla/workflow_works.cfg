SPECIFICATION Spec
CONSTANTS
  Versions <- MCVersions
  PipelineNames <- MCPipelineNames
  Pipelines <- MCPipelines
  SpecEdits <- MCReverts
  NumberOfJobsToKeep = 1
  MaxJobs = 6
  MaxEdits = 2
  MaxFaults = 0
INVARIANT NoWorkLost
CHECK_DEADLOCK FALSE
