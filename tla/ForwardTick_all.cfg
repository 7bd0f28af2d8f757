SPECIFICATION FairSpec
CONSTANTS
  Group = {g1, g2, g3}
  Shunned = {g3}
  Findable = {g1, g3}
  TickMin = 2
  TickMax = 2
  MaxUpsets = 3
INVARIANTS SavedIsExact
PROPERTIES ReuseNeedsCut EveryGroupServed
