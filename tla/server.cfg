SPECIFICATION FairSpec
CONSTANTS
  ThreadNums = {0, 1, 2}
  MaxThreads = 2
  Tasks <- ServerTasks
  MaxQueue = 0
  MaxCalls = 0
  MaxConns = 3
  NameRange = 4
INVARIANTS Registered KeepsAccepting EraseFinds SafeWhileServing
PROPERTIES LivesFollowed CleanedDestroyed
