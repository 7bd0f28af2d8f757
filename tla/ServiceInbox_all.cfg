SPECIFICATION Spec
CONSTANTS
  k1 = k1
  k2 = k2
  a1 = a1
  a2 = a2
  a3 = a3
  b1 = b1
  b2 = b2
  Key = {k1, k2}
  Request = {a1, a2, a3, b1, b2}
  KeyOf <- McKeyOf
  Phones = 2
  Keep = 2
  MaxFaults = 2
  MaxCrashes = 1
CHECK_DEADLOCK FALSE
SYMMETRY SameKey
INVARIANTS OneWorkerPerKey ReservedForAReason RepeatsNeedFailures
