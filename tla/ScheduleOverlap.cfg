\* Commands over two runs of the job, three goroutines at a time, no fault.
CONSTANTS
 e1 = e1
 e2 = e2
 r1 = r1
 r2 = r2
 Platforms <- Unix
 Message <- WithoutCertificate
 Enabler <- TwoEnablers
 JobRun <- TwoRuns
 MaxOverlap = 3
 MaxMessages = 3
 MaxFaults = 0
SPECIFICATION Spec
INVARIANTS
 TypeOK
 EnabledReports
 UndoneOnlyByStaleSave
CHECK_DEADLOCK FALSE
