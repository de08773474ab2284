SPECIFICATION FairSpec
CONSTANTS
  Versions <- MCVersions
  PipelineNames <- MCPipelineNames
  Pipelines <- MCPipelines
  SpecEdits <- MCReverts
  NumberOfJobsToKeep = 1
  MaxJobs = 6
  MaxEdits = 2
  MaxFaults = 0
PROPERTY InProgressEnds
CHECK_DEADLOCK FALSE
