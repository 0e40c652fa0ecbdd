CONSTANTS
  Temps <- MCTemps
  MaxFaults = 0
SPECIFICATION Spec
INVARIANT
  Q4OpenBehindPump
