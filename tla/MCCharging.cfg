CONSTANTS
  Temps <- MCTemps
  MaxFaults = 1
SPECIFICATION FairSpec
INVARIANTS
  TypeOK
  BoostIsolated
  Attended
  UnboundHandsBack
PROPERTY
  ChargesAgain
