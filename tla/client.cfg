SPECIFICATION FairSpec
CONSTANTS
  MaxConnects = 2
  MaxPosts = 3
INVARIANTS TrueIsOpen OpenIsConnected DestroyedInTime
PROPERTIES ClosingCleansUp
