CONSTANT
  MaxFaults = 2
SPECIFICATION FairSpec
INVARIANTS
  TypeOK
  AsleepQuiet
  WatchLives
PROPERTY
  AttachmentReported
