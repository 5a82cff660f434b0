SPECIFICATION Spec
CONSTANTS
  Entities = {e1, e2}
  Cookies = {k1, k2}
  Tags = {t1, t2}
  Durations = {0, 1, 2}
  MaxTime = 4
INVARIANTS TypeOK MutualExclusion OneGuardedOwner EphemeralObject
PROPERTIES NoTheft
