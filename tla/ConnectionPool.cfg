\* Three requests for a pool of one connection, which may be created thrice.
CONSTANTS
  Request = {r1, r2, r3}
  Task = {r1, r2, r3}
  Of <- OneEach
  NoConn = NoConn
  MaxPools = 3
  Size = 1
SPECIFICATION FairSpec
INVARIANTS TypeOK OneRequestPerConnection CurrentPoolKeepsAll
PROPERTY WaitIsServed
