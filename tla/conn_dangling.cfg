SPECIFICATION Spec
CONSTANTS
  MaxSends = 2
  MaxReads = 1
  Limits <- Both
  ConnectReactions <- QuietConnect
  ReadReactions <- AnyRead
  WriteReactions <- Nothing
INVARIANT NoDangling
