CONSTANTS
  usr = usr
  etc = etc
  Paths <- MCPaths
  Limit = 2
  Cap = 2
  MaxFaults = 1
SPECIFICATION Spec
INVARIANT RetiredAfterUnbrokenWeek
