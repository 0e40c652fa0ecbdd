CONSTANTS
  s1 = s1
  s2 = s2
  old = old
  None = None
  Torn = Torn
  Slots <- MCSlots
  Original = old
  Release <- MCRelease
  MaxPowerLoss = 2
SPECIFICATION FairSpec
INVARIANTS
  TypeOK
  WrittenMeansRecoverable
  TrialRunsWhole
  OriginalRunsWhole
PROPERTIES
  FailedApplyRestartsRestored
  TrialBootSpec
  ComesToRest
