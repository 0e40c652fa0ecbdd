CONSTANT
  MaxFaults = 2
SPECIFICATION Spec
INVARIANTS
  TypeOK
  
  SwapHeld
  PulseEnds
