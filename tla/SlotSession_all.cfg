SPECIFICATION FairSpec
CONSTANTS
  Op = {o1, o2}
  Request = {r1, r2, r3}
  LoginDrops = TRUE
INVARIANTS QuietLogin ReservedForALogin LoginSticks
PROPERTIES RequestsEnd
CHECK_DEADLOCK FALSE
