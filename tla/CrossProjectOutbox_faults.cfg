SPECIFICATION Spec
CONSTANTS
  Key = {e1, e2, e3}
  MaxAttempts = 2
  MaxRows = 2
  Batch = 2
  Faults = {"read", "write", "body"}
  MaxCrashes = 1
INVARIANTS DeliveredWasAccepted AttemptsBounded
PROPERTIES SettledStaysSettled EventLedgerSpec
