CONSTANTS
  MaxChanges = 2
  MaxFaults = 2
  MaxEvents = 4
  Release <- MCRelease
SPECIFICATION Spec
INVARIANT BackupHoldsNoTorn
