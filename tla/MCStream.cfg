SPECIFICATION Spec
CONSTANTS
  Byte <- MCByte
  Zero = 0
  Junk = Junk
  MaxSize = 12
  Alloc = {TRUE, FALSE}
  Unit = 2
  SizeMax = 63
  StackWords = {0}
  MaxLen = 3
  PairMax = 3
  Aligns = {2, 4}
  Codecs = {"cobs", "cobs_r", "zpe", "zpe_r"}
  Band = 4
  Grow = 2
  Pieces <- MCPieces
  MaxData = 4
  MaxMsgs = 2
  Care = {"offset", "stale", "late", "empty", "tail"}
INVARIANTS SentArrives FoundUnlessNoGap
CHECK_DEADLOCK FALSE
