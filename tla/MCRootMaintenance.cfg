CONSTANTS
  usr = usr
  etc = etc
  Paths <- MCPaths
  Limit = 2
  Cap = 2
  MaxFaults = 1
SPECIFICATION FairSpec
INVARIANTS
  TypeOK
  RetiredAfterHealthyWeek
  RemovalFollowsPublication
  RetiredIsGone
PROPERTY
  EventuallyRetired
