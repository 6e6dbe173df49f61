SPECIFICATION Spec
CONSTANTS
  PrependBytes = 1
  InitSize = 1
  Bytes = {1, 2, 3}
  Chunks <- Strings
  Buffers = {"a", "b"}
  MaxReadable = 3
  CR = 1
  LF = 2
  Pieces <- Reads
  MaxReceived = 7
  N = 2
  Values = {7}
  Junk = Junk
  MaxItems = 4
  Chars = {"-", "=", "x"}
  MaxArgs = 2
  MaxChars = 3
  Letters = {"#", " ", "nl", "x"}
  Newline = "nl"
  MaxText = 5
  Scale = 2
  MaxTime = 4
INVARIANTS SplitExact ArgsAccounted LinesExact TextExact ReadingsAgree
PROPERTIES FifoSpec ResizeKeeps
