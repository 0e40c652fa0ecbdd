CONSTANTS
  Clients = {c1, c2}
  None = None
  Freed = Freed
  SPCOM_MAX_CHANNEL_CLIENTS = 2
  INITIAL_TXN_ID = 8
  MaxTxn = 1
  MaxSessions = 2
SPECIFICATION FairSpec
INVARIANTS
  TypeOK
  SyncHasOwner
  DeviceBehindSend
PROPERTIES
  TurnsSpec
  TurnComes
