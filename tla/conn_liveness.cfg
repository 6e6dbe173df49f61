SPECIFICATION FairSpec
CONSTANTS
  MaxSends = 1
  MaxReads = 1
  Limits <- NotBoth
  ConnectReactions <- QuietConnect
  ReadReactions <- AnswerAndShutdown
  WriteReactions <- ForcingWrite
PROPERTIES CleanedCloses ShutdownCloses SilentPeerCloses
