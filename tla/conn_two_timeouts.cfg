SPECIFICATION Spec
CONSTANTS
  MaxSends = 2
  MaxReads = 1
  Limits <- Both
  ConnectReactions <- QuietConnect
  ReadReactions <- Nothing
  WriteReactions <- Nothing
INVARIANT TimeoutHasHandle
