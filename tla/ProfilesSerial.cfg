\* Every platform, three kinds of goroutine, one at a time, two faults.
SPECIFICATION Spec
CONSTANTS
  p1 = p1
  p2 = p2
  job = job
  run = run
  one = one
  inst = inst
  conf = conf
  keep = keep
  play1 = play1
  play2 = play2
  vpn = vpn
  reg = reg
  Platforms <- EveryPlatform
  Profile <- MCProfile
  Task <- MCTask
  Resources <- Mixed
  NetBird <- MixedNetBird
  Resource <- MCResource
  Actor <- ThreeActors
  Kind <- ThreeKinds
  Response <- ThreeResponses
  MaxOverlap = 1
  MaxFaults = 2
  TornWrites = TRUE
INVARIANTS
  NoRerunOfRemembered
  MarkOutlivesRunOnlyAfterFault
  NothingForgotten
  
