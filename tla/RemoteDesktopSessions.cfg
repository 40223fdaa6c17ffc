\* Two sessions, two certificates, two faults, handlers that overlap.
SPECIFICATION Spec
CONSTANTS
  MaxCertificates = 2
  MaxFaults = 2
  Backends <- EveryBackend
  MaxSessions = 2
INVARIANTS
  TypeOK
  StrayOnlyForCause
  SessionWorks
  PairMatches
  PairIsCurrent
CHECK_DEADLOCK FALSE
