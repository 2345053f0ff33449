SPECIFICATION LoopSpec
CONSTANTS
  Streams = {s1, s2}
  Listeners = {l1}
  Single = {}
  MaxFd = 2
  MaxMsgs = 2
  MaxConn = 1
  Granule = 2
  Modes = {TRUE}
  Null = Null
  Garbage = Garbage
INVARIANTS
  WaitingRegistered
  NothingLost
PROPERTIES
  MessageServed
  LoopEnds
CHECK_DEADLOCK FALSE
