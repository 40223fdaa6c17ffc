\* Every message, one goroutine started at a time, three faults.
CONSTANTS
 e1 = e1
 e2 = e2
 r1 = r1
 r2 = r2
 Platforms <- EveryPlatform
 Message <- AllMessages
 Enabler <- OneEnabler
 JobRun <- OneRun
 MaxOverlap = 1
 MaxMessages = 4
 MaxFaults = 3
SPECIFICATION Spec
INVARIANTS
 EnabledPersisted
 EnabledReports
 DisabledStaysQuiet
PROPERTIES
 RestartFlagKept
CHECK_DEADLOCK FALSE
