CONSTANTS
  MaxChanges = 2
  MaxFaults = 2
  MaxEvents = 3
  Release <- MCRelease
SPECIFICATION FairSpec
INVARIANTS
  TypeOK
  BackupIsAndroid
  BackupIsSnapshot
  RestartsWhole
PROPERTIES
  BackupReplacedWhole
  JobRestores
