CONSTANTS
  a = a
  b = b
  Senders <- MCSenders
  Sizes <- MCSizes
  Length = 40
  MaxTaken = 48
SPECIFICATION FairSpec
INVARIANTS
  TypeOK
  NeverFull
PROPERTIES
  SentAtLast
  StreamSpec
