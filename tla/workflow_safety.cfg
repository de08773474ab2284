SPECIFICATION Spec
CONSTANTS
  Versions <- MCVersions
  PipelineNames <- MCPipelineNames
  Pipelines <- MCPipelines
  SpecEdits <- MCAllEdits
  NumberOfJobsToKeep = 1
  MaxJobs = 6
  MaxEdits = 2
  MaxFaults = 1
INVARIANTS
  TypeOK
  OnlyLatestJobRuns
  FinishedMeansWorksCurrent
  FailureIsLatest
PROPERTY PipelinesRunInOrder
CHECK_DEADLOCK FALSE
