SPECIFICATION Spec
CONSTANTS
  MaxSends = 2
  MaxReads = 1
  Limits <- AllOrNone
  ConnectReactions <- QuietConnect
  ReadReactions <- AnyRead
  WriteReactions <- ClosingWrite
INVARIANTS TypeOK OneWrite NoStuckOutput InOrder GracefulDrain EraseOnce Guarded AliveUntilClosed
PROPERTIES LifeSpec
