SPECIFICATION FairSpec
CONSTANTS
  Op = {o1}
  Request = {r1, r2}
  LoginDrops = TRUE
PROPERTIES ClientReplaced
CHECK_DEADLOCK FALSE
