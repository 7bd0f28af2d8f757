SPECIFICATION FairSpec
CONSTANTS
  Key = {e1, e2}
  MaxAttempts = 2
  MaxRows = 2
  Batch = 1
  Faults = {"write", "body"}
  MaxCrashes = 1
PROPERTY EventsSettle
