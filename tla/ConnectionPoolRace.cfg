\* The first two requests of a process.
CONSTANTS
  Request = {r1, r2}
  Task = {r1, r2}
  Of <- OneEach
  NoConn = NoConn
  MaxPools = 2
  Size = 1
SPECIFICATION Spec
INVARIANT NothingLost
