SPECIFICATION FairSpec
CONSTANTS
  Versions <- MCVersions
  PipelineNames <- MCPipelineNames
  Pipelines <- MCPipelines
  SpecEdits <- MCForwardEdits
  NumberOfJobsToKeep = 1
  MaxJobs = 6
  MaxEdits = 2
  MaxFaults = 0
PROPERTY StatusSettles
CHECK_DEADLOCK FALSE
