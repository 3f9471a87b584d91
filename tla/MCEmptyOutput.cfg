SPECIFICATION Spec
CONSTANTS
  DeadCooldown = 1
  CountCap = 2
  FI = FI
  RU = RU
  Codes = {FI, RU}
  NoCountry = NoCountry
  Proxies = {p}
  NoRuntime = NoRuntime
  NoSnapshot = NoSnapshot
  Exits <- MCExits
  Probes <- MCAllProbes
  Expiries = {FALSE}
  MaxFailures = 0
  MaxRestarts = 0
PROPERTY
  PopulatedOutputStays
