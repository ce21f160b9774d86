SPECIFICATION Spec
CONSTANTS
  Vins <- MCVins
  Vbats <- MCVbats
  IinLimits <- MCIinLimits
  Floats <- MCFloats
  ProfileIin = 2700000
  ProfileFloat = 4470000
  PorIin = 54
  PorFloat = 149
INVARIANT BypassKeepsProfileFloat
