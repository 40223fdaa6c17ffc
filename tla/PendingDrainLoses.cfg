\* Three results wait and all are acknowledged by one run of the job.
SPECIFICATION Spec
CONSTANTS
  d1 = d1
  d2 = d2
  d3 = d3
  run1 = run1
  run2 = run2
  Deployment <- ThreeDeployments
  Operation <- ThreeOperations
  Platform = "linux"
  JobRun = {run1}
  MaxOverlap = 1
  MaxFaults = 3
  MaxDiskErrors = 0
  MaxCrashes = 0
INVARIANT
  NoResultLost
