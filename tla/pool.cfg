SPECIFICATION PoolSpec
CONSTANTS
  ThreadNums = {0, 1, 2, 3}
  MaxThreads = 3
  task = task
  Tasks = {task}
  MaxQueue = 2
  MaxCalls = 3
INVARIANTS LoopReady Balanced LoopOutlivesRun
PROPERTIES TasksRun StartAndDropEnd
