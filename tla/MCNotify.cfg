SPECIFICATION ApiSpec
CONSTANTS
  Streams = {s1, s2}
  Listeners = {l1}
  Single = {l1}
  MaxFd = 3
  MaxMsgs = 1
  MaxConn = 1
  Granule = 2
  Modes = {TRUE, FALSE}
  Null = Null
  Garbage = Garbage
SYMMETRY Symmetry
INVARIANTS
  TablesAgree
  EventsReady
CHECK_DEADLOCK FALSE
