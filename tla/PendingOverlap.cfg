\* Handlers and two runs of the job overlap; the agent may crash.
SPECIFICATION Spec
CONSTANTS
  d1 = d1
  d2 = d2
  d3 = d3
  run1 = run1
  run2 = run2
  Deployment <- ThreeDeployments
  Operation <- ThreeOperations
  Platform = "darwin"
  JobRun = {run1, run2}
  MaxOverlap = 3
  MaxFaults = 3
  MaxDiskErrors = 1
  MaxCrashes = 1
INVARIANTS
  TypeOK
  OnlyRefusedResent
SYMMETRY RunSymmetry
