SPECIFICATION Spec
CONSTANTS
  dm = dm
  dm2 = dm2
  media = media
  location = location
  auto = auto
  ana = ana
  bob = bob
  None = None
  Job = {dm, auto}
  Kind <- McKind
  JobChat <- McJobChat
  MaxAttempts = 1
  QueueSize = 1
  Tries = 2
  Processor = {p1, p2, p3}
  MaxStops = 2
SYMMETRY Processors
INVARIANTS SingleProcessor OneLiveAttempt RepeatsNeedLostAnswers OneTaskLostPerStop
