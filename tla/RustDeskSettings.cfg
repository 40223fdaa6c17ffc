\* Every platform; requests that overlap, failures and crashes at every step.
SPECIFICATION Spec
CONSTANT
  Platforms <- EveryPlatform
INVARIANT
  TypeOK
PROPERTIES
  LostOnlyForCause
  LendsAndGivesBack
