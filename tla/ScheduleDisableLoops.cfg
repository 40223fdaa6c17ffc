\* One disable command that comes before the report job exists.
CONSTANTS
 e1 = e1
 e2 = e2
 r1 = r1
 r2 = r2
 Platforms <- Unix
 Message <- OnlyDisable
 Enabler <- OneEnabler
 JobRun <- OneRun
 MaxOverlap = 2
 MaxMessages = 1
 MaxFaults = 0
SPECIFICATION FairSpec
PROPERTIES
 DisableTakesEffect
CHECK_DEADLOCK FALSE
