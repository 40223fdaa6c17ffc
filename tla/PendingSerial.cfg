\* Two deployments, one goroutine at a time, no crash.
SPECIFICATION FairSpec
CONSTANTS
  d1 = d1
  d2 = d2
  d3 = d3
  run1 = run1
  run2 = run2
  Deployment <- TwoDeployments
  Operation <- TwoOperations
  Platform = "windows"
  JobRun = {run1}
  MaxOverlap = 1
  MaxFaults = 4
  MaxDiskErrors = 2
  MaxCrashes = 0
INVARIANTS
  NoResultLost
  AckedLeavesFile
PROPERTIES
  EventuallyAcked
  DeliversEveryResult
