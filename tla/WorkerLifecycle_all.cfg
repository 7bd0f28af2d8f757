SPECIFICATION FairSpec
CONSTANTS
  Task = {t1, t2}
  Modes = {"campaign", "manual"}
  Asks <- Operators
  MaxCalls = 1
  MaxFaults = 1
  MaxStarters = 1
INVARIANTS QuietStopHolds LoopsBounded
PROPERTIES StopTakesEffect FeatureIsServed
