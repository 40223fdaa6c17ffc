\* Windows: the job and the agent.runprofile handler overlap, one fault.
SPECIFICATION FairSpec
CONSTANTS
  p1 = p1
  p2 = p2
  job = job
  run = run
  one = one
  inst = inst
  conf = conf
  keep = keep
  play1 = play1
  play2 = play2
  vpn = vpn
  reg = reg
  Platforms <- Windows
  Profile <- MCProfile
  Task <- MCTask
  Resources <- OneEach
  NetBird <- NoNetBird
  Resource <- MCResource
  Actor <- TwoActors
  Kind <- TwoKinds
  Response <- TwoResponses
  MaxOverlap = 2
  MaxFaults = 1
  TornWrites = FALSE
INVARIANTS
  TypeOK
  NeverMarkedUnexecuted
PROPERTY
  EveryProfileRecurs
