SPECIFICATION FairSpec
CONSTANTS
  dm = dm
  dm2 = dm2
  media = media
  location = location
  auto = auto
  ana = ana
  bob = bob
  None = None
  Job = {dm, media}
  Kind <- McKind
  JobChat <- McJobChat
  MaxAttempts = 2
  QueueSize = 1
  Tries = 2
  Processor = {p1, p2}
  MaxStops = 0
INVARIANTS AnsweredMeansSent
PROPERTIES RequestSettles JobsSettle
