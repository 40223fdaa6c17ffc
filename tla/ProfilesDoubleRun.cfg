\* Two overlapping goroutines apply one profile at once, without any fault.
SPECIFICATION Spec
CONSTANTS
  p1 = p1
  p2 = p2
  job = job
  run = run
  one = one
  inst = inst
  conf = conf
  keep = keep
  play1 = play1
  play2 = play2
  vpn = vpn
  reg = reg
  Platforms <- Unix
  Profile <- MCProfile
  Task <- MCTask
  Resources <- OneEach
  NetBird <- NoNetBird
  Resource <- MCResource
  Actor <- TwoActors
  Kind <- TwoKinds
  Response <- TwoResponses
  MaxOverlap = 2
  MaxFaults = 0
  TornWrites = FALSE
INVARIANT
  NoDoubleRun
