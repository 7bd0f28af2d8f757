SPECIFICATION FairSpec
CONSTANTS
  dm1 = dm1
  dm2 = dm2
  auto = auto
  retry = retry
  post = post
  cycle = cycle
  ana = ana
  bob = bob
  Task = {dm1, auto, retry, post}
  MaxSize = 2
  Priority <- McPriority
  WaitResult <- McWaitResult
  Awaited <- McAwaited
  Manual <- McManual
  AutoReply <- McAutoReply
  Chat <- McChat
  MaxSequence = 3
INVARIANTS TypeOK DepthBounded WaiterCovered NoLeakedFuture AnswerIsTrue
PROPERTIES LedgerSpec EveryWaitEnds
