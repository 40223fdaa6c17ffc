\* Three logins at the same time; an entry of the cache lives three ticks.
SPECIFICATION Spec
CONSTANTS
  c1 = c1
  c2 = c2
  c3 = c3
  Login <- ThreeLogins
  TTL = 3
SYMMETRY Interchangeable
INVARIANT
  TypeOK
PROPERTIES
  AcceptedOnlyWhileFresh
  RefusedOnlyAfterTrouble
